---- MODULE Spec2Model ----
(***************************************************************************)
(* Verification model of the todo-app repository: the task operations of   *)
(* internal/todo (Add, Complete, Delete, generateID), the durable store of  *)
(* internal/storage (LoadJSON, SaveJSON, AcquireLock, Release) and the JSON *)
(* and CSV codecs (SaveCSV, LoadCSV).                                       *)
(*                                                                         *)
(* The specifications of the module:                                        *)
(*   Spec        task operations applied to one in-memory collection        *)
(*   StoreSpec   processes saving to and loading from one store path        *)
(*   CodecSpec   one collection encoded to a file and decoded again         *)
(*   ImportSpec  LoadJSON and LoadCSV applied to hand-written files         *)
(*   AddSpec     Add applied to descriptions at the length limit            *)
(*   FairStoreSpec, CrashSpec, FairCrashSpec                                *)
(*               StoreSpec with a fair AcquireLock loop, with processes     *)
(*               killed inside SaveJSON, and with both                      *)
(*   MainSpec    command invocations of cmd/todo against the store file     *)
(*   InvokeSpec  two concurrent add invocations on one store file           *)
(***************************************************************************)
EXTENDS Integers, Sequences, FiniteSets, TLC

VARIABLES
    tasks,      \* Spec: the caller's task collection ([]todo.Task)
    assigned,   \* Spec: history, the ids handed out by successful Add calls
    last,       \* Spec: history, the last task operation and its outcome
    cTasks,     \* CodecSpec: the collection handed to SaveJSON / SaveCSV;
                \* InvokeSpec: the collection the store held at the start
    cNil,       \* CodecSpec: whether that slice is nil
    cFile,      \* CodecSpec: the file written, [exists, format, data]
    cOut,       \* CodecSpec: what LoadJSON / LoadCSV returned, [err, tasks, isNil]
    cPhase,     \* CodecSpec: "start", "saved" or "loaded"
    cIn,        \* ImportSpec: how the file was written by hand, [kind, rows]
    store,      \* StoreSpec: the file at path, [exists, data]
    lockFile,   \* StoreSpec: whether the marker file path + ".lock" exists
    tmp,        \* StoreSpec: per process, the temporary file of its SaveJSON
    pc,         \* StoreSpec: per process, its position in SaveJSON / LoadJSON
    job,        \* StoreSpec: per process, the call it runs, [kind, tasks]
    elapsed,    \* StoreSpec: per process, time.Since(start) in AcquireLock (ms)
    ret,        \* StoreSpec: per process, the error and result of its call
    hist,       \* StoreSpec: history, [seen, overlap, held]
    run         \* MainSpec: the last command invocation and its outcome

opVars == <<tasks, assigned, last>>
codecVars == <<cTasks, cNil, cFile, cOut, cPhase, cIn>>

storeVars == <<store, lockFile, tmp, pc, job, elapsed, ret, hist>>
mainVars == <<run>>

vars == <<tasks, assigned, last, cTasks, cNil, cFile, cOut, cPhase, cIn,
          store, lockFile, tmp, pc, job, elapsed, ret, hist, run>>

(***************************************************************************)
(* Bounds of the task-operation model.                                     *)
(***************************************************************************)
MaxLen == 3          \* Add is explored while the collection is shorter
MaxId == 4           \* Add is explored while the generated id stays <= MaxId
InitLen == 2         \* longest collection the exploration starts from

\* ids a codec-loaded starting collection may carry (zero and negative too)
InitIds == -1 .. 2
\* ids passed to Complete and Delete
ArgIds == -1 .. MaxId

(***************************************************************************)
(* Task model (manager.go, type Task) and the constants of manager.go.     *)
(***************************************************************************)
MinID == 1
MaxDescriptionLength == 1000

Task(id, desc, done) == [id |-> id, description |-> desc, done |-> done]

\* descriptions are byte strings, modelled as sequences of characters
DescA == <<"a">>
DescB == <<"b", " ", "c">>
OpDescs == {<< >>, DescA, DescB}
\* the longest description Add accepts, and the shortest one too long
DescMax == [k \in 1..MaxDescriptionLength |-> "a"]
DescOver == [k \in 1..(MaxDescriptionLength + 1) |-> "a"]
\* descriptions at the limits of ValidateDescription: 0, 1, 1000, 1001 bytes
LimitDescs == {<< >>, DescA, DescMax, DescOver}

SeqsUpTo(S, n) == UNION {[1..k -> S] : k \in 0..n}

InitTasks == {Task(i, DescA, FALSE) : i \in InitIds}

Ids(ts) == {ts[i].id : i \in 1..Len(ts)}
Distinct(ts) == \A i, j \in 1..Len(ts) : ts[i].id = ts[j].id => i = j
AllPositive(ts) == \A i \in 1..Len(ts) : ts[i].id >= 1
\* reference maximum of a non-empty set of integers
MaxOf(S) == CHOOSE m \in S : \A x \in S : x <= m

(***************************************************************************)
(* manager.go: ValidateID, ValidateDescription, findTaskByID, generateID.  *)
(***************************************************************************)
\* mutant: the lower limit is 0 instead of MinID
ValidateID_zero(id) == IF id < 0 THEN "invalid id" ELSE "ok"

ValidateID(id) == IF id < MinID THEN "invalid id" ELSE "ok"

\* mutant: the length test is >= instead of >
ValidateDescription_ge(desc) ==
    IF desc = << >> THEN "empty description"
    ELSE IF Len(desc) >= MaxDescriptionLength THEN "description too long"
    ELSE "ok"

ValidateDescription(desc) ==
    IF desc = << >> THEN "empty description"
    ELSE IF Len(desc) > MaxDescriptionLength THEN "description too long"
    ELSE "ok"

\* mutant: the search runs from the end of the slice
findTaskByID_last(ts, id) ==
    IF \E i \in 1..Len(ts) : ts[i].id = id
    THEN CHOOSE i \in 1..Len(ts) :
            /\ ts[i].id = id
            /\ \A j \in (i+1)..Len(ts) : ts[j].id # id
    ELSE -1

\* index of the first task with the id, or -1
findTaskByID(ts, id) ==
    IF \E i \in 1..Len(ts) : ts[i].id = id
    THEN CHOOSE i \in 1..Len(ts) :
            /\ ts[i].id = id
            /\ \A j \in 1..(i-1) : ts[j].id # id
    ELSE -1

\* the loop of generateID: maxID after scanning ts[1..n], starting at MinID-1
RECURSIVE ScanMax(_, _)
ScanMax(ts, n) ==
    IF n = 0 THEN MinID - 1
    ELSE LET m == ScanMax(ts, n - 1)
         IN  IF ts[n].id > m THEN ts[n].id ELSE m

\* mutant: a running counter instead of the max-based scan
generateID_count(ts) == Len(ts) + 1
\* mutant: the increment after the scan is forgotten
generateID_noinc(ts) == IF Len(ts) = 0 THEN MinID ELSE ScanMax(ts, Len(ts))

generateID(ts) ==
    IF Len(ts) = 0 THEN MinID ELSE ScanMax(ts, Len(ts)) + 1

(***************************************************************************)
(* manager.go: Add, Complete, Delete as functions from the collection to   *)
(* the returned collection and error.                                      *)
(***************************************************************************)
\* mutant: the new task is put in front of the others
AddResult_front(ts, desc) ==
    IF ValidateDescription(desc) # "ok"
    THEN [tasks |-> ts, err |-> ValidateDescription(desc), id |-> 0]
    ELSE [tasks |-> <<Task(generateID(ts), desc, FALSE)>> \o ts,
          err |-> "ok", id |-> generateID(ts)]

AddResult(ts, desc) ==
    IF ValidateDescription(desc) # "ok"
    THEN [tasks |-> ts, err |-> ValidateDescription(desc), id |-> 0]
    ELSE [tasks |-> Append(ts, Task(generateID(ts), desc, FALSE)),
          err |-> "ok", id |-> generateID(ts)]

\* mutant: Complete flips the flag instead of setting it
CompleteResult_toggle(ts, id) ==
    IF ValidateID(id) # "ok" THEN [tasks |-> ts, err |-> ValidateID(id)]
    ELSE IF findTaskByID(ts, id) = -1 THEN [tasks |-> ts, err |-> "not found"]
    ELSE [tasks |-> [ts EXCEPT ![findTaskByID(ts, id)].done =
                                   ~ts[findTaskByID(ts, id)].done],
          err |-> "ok"]

\* mutant: every task with the id is set done
CompleteResult_all(ts, id) ==
    IF ValidateID(id) # "ok" THEN [tasks |-> ts, err |-> ValidateID(id)]
    ELSE IF findTaskByID(ts, id) = -1 THEN [tasks |-> ts, err |-> "not found"]
    ELSE [tasks |-> [i \in 1..Len(ts) |->
                       IF ts[i].id = id THEN [ts[i] EXCEPT !.done = TRUE]
                       ELSE ts[i]],
          err |-> "ok"]

CompleteResult(ts, id) ==
    IF ValidateID(id) # "ok" THEN [tasks |-> ts, err |-> ValidateID(id)]
    ELSE IF findTaskByID(ts, id) = -1 THEN [tasks |-> ts, err |-> "not found"]
    ELSE [tasks |-> [ts EXCEPT ![findTaskByID(ts, id)].done = TRUE],
          err |-> "ok"]

\* mutant: the slices are cut one position late, so the task after the
\* matching one is removed when there is one
DeleteResult_after(ts, id) ==
    IF ValidateID(id) # "ok" THEN [tasks |-> ts, err |-> ValidateID(id)]
    ELSE IF findTaskByID(ts, id) = -1 THEN [tasks |-> ts, err |-> "not found"]
    ELSE LET index == IF findTaskByID(ts, id) < Len(ts)
                      THEN findTaskByID(ts, id) + 1 ELSE findTaskByID(ts, id)
         IN  [tasks |-> SubSeq(ts, 1, index - 1) \o SubSeq(ts, index + 1, Len(ts)),
              err |-> "ok"]

DeleteResult(ts, id) ==
    IF ValidateID(id) # "ok" THEN [tasks |-> ts, err |-> ValidateID(id)]
    ELSE IF findTaskByID(ts, id) = -1 THEN [tasks |-> ts, err |-> "not found"]
    ELSE LET index == findTaskByID(ts, id)
         IN  [tasks |-> SubSeq(ts, 1, index - 1) \o SubSeq(ts, index + 1, Len(ts)),
              err |-> "ok"]

\* the loop of List for "done" (want = TRUE) and "pending" (want = FALSE):
\* the tasks of ts[1..n] whose Done equals want, appended in order
RECURSIVE ListLoop(_, _, _)
ListLoop(ts, n, want) ==
    IF n = 0 THEN << >>
    ELSE IF ts[n].done = want THEN Append(ListLoop(ts, n - 1, want), ts[n])
    ELSE ListLoop(ts, n - 1, want)

\* mutant: an unrecognized filter returns nothing
ListResult_strict(ts, filter) ==
    IF filter = "done" THEN ListLoop(ts, Len(ts), TRUE)
    ELSE IF filter = "pending" THEN ListLoop(ts, Len(ts), FALSE)
    ELSE IF filter = "all" THEN ts
    ELSE << >>

\* List: the switch on the filter string
ListResult(ts, filter) ==
    IF filter = "done" THEN ListLoop(ts, Len(ts), TRUE)
    ELSE IF filter = "pending" THEN ListLoop(ts, Len(ts), FALSE)
    ELSE ts

\* What the caller's slice holds after the call.  A Go slice shares its
\* backing array with the slice the function returns: Complete sets Done in
\* that array, and the append of Delete shifts the tasks after the deleted
\* one down by one in it, leaving the last element where it was; Add writes
\* only past the caller's length, List writes nothing.
CompleteCaller(ts, id) == CompleteResult(ts, id).tasks
DeleteCaller(ts, id) ==
    IF DeleteResult(ts, id).err = "ok"
    THEN DeleteResult(ts, id).tasks \o <<ts[Len(ts)]>>
    ELSE ts

(***************************************************************************)
(* Bytes.  File contents and descriptions are sequences of characters.     *)
(* "U+00E9" stands for a multi-byte (non-ASCII) character, "xFF" for a     *)
(* byte that is not valid UTF-8, "U+FFFD" for the replacement character.   *)
(***************************************************************************)
Digits == <<"0", "1", "2", "3", "4", "5", "6", "7", "8", "9">>
DigitSet == {Digits[k] : k \in 1..10}
DigitVal(c) == (CHOOSE k \in 1..10 : Digits[k] = c) - 1

RECURSIVE Concat(_)
Concat(ss) == IF ss = << >> THEN << >> ELSE Head(ss) \o Concat(Tail(ss))

\* strconv.Itoa
RECURSIVE ItoaNat(_)
ItoaNat(n) ==
    IF n < 10 THEN <<Digits[n + 1]>>
    ELSE ItoaNat(n \div 10) \o <<Digits[(n % 10) + 1]>>
Itoa(n) == IF n < 0 THEN <<"-">> \o ItoaNat(0 - n) ELSE ItoaNat(n)

\* value of a non-empty sequence of decimal digits
RECURSIVE DigitsVal(_)
DigitsVal(ds) ==
    IF Len(ds) = 1 THEN DigitVal(ds[1])
    ELSE 10 * DigitsVal(SubSeq(ds, 1, Len(ds) - 1)) + DigitVal(ds[Len(ds)])

AllDigits(ds) == ds # << >> /\ \A k \in 1..Len(ds) : ds[k] \in DigitSet

\* strconv.FormatBool
FormatBool(b) == IF b THEN <<"t", "r", "u", "e">> ELSE <<"f", "a", "l", "s", "e">>

(***************************************************************************)
(* JSON encoding: json.MarshalIndent(tasks, "", "  ") of a []todo.Task     *)
(* (json_storage.go line 140), with the field names of the Task tags.      *)
(***************************************************************************)
\* mutant: the quote character is written unescaped
JSONEscape_rawquote(c) ==
    CASE c = "\\" -> <<"\\", "\\">>
      [] c = "\n" -> <<"\\", "n">>
      [] c = "\r" -> <<"\\", "r">>
      [] c = "\t" -> <<"\\", "t">>
      [] c = "xFF" -> <<"\\", "u", "f", "f", "f", "d">>
      [] OTHER -> <<c>>

\* encoding/json string escaping of one character
JSONEscape(c) ==
    CASE c = "\"" -> <<"\\", "\"">>
      [] c = "\\" -> <<"\\", "\\">>
      [] c = "\n" -> <<"\\", "n">>
      [] c = "\r" -> <<"\\", "r">>
      [] c = "\t" -> <<"\\", "t">>
      [] c = "xFF" -> <<"\\", "u", "f", "f", "f", "d">>
      [] OTHER -> <<c>>

JSONString(s) ==
    <<"\"">> \o Concat([k \in 1..Len(s) |-> JSONEscape(s[k])]) \o <<"\"">>

KeyId == <<"\"", "i", "d", "\"">>
KeyDescription ==
    <<"\"", "d", "e", "s", "c", "r", "i", "p", "t", "i", "o", "n", "\"">>
KeyDone == <<"\"", "d", "o", "n", "e", "\"">>

Indent(n) == [k \in 1..(2 * n) |-> " "]

JSONObject(t) ==
    Indent(1) \o <<"{", "\n">>
    \o Indent(2) \o KeyId \o <<":", " ">> \o Itoa(t.id) \o <<",", "\n">>
    \o Indent(2) \o KeyDescription \o <<":", " ">>
                 \o JSONString(t.description) \o <<",", "\n">>
    \o Indent(2) \o KeyDone \o <<":", " ">> \o FormatBool(t.done) \o <<"\n">>
    \o Indent(1) \o <<"}">>

\* a nil slice encodes as null, an empty non-nil slice as []
MarshalIndent(ts, isNil) ==
    IF isNil THEN <<"n", "u", "l", "l">>
    ELSE IF ts = << >> THEN <<"[", "]">>
    ELSE <<"[", "\n">>
         \o Concat([k \in 1..Len(ts) |->
                      JSONObject(ts[k])
                      \o (IF k < Len(ts) THEN <<",", "\n">> ELSE <<"\n">>)])
         \o <<"]">>

(***************************************************************************)
(* JSON decoding: json.Unmarshal(data, &tasks) with tasks a nil []Task     *)
(* (json_storage.go lines 119-123).  Parsers return [ok, pos, val]: pos is *)
(* the index after the parsed text.  Any syntax or type error makes the    *)
(* whole Unmarshal fail.  A value of an unknown key is skipped when it is  *)
(* a scalar; nested values under unknown keys are outside this model.      *)
(***************************************************************************)
Fail == [ok |-> FALSE, pos |-> 0, val |-> 0]
Ok(p, v) == [ok |-> TRUE, pos |-> p, val |-> v]

JSONSpace == {" ", "\n", "\r", "\t"}

RECURSIVE SkipWS(_, _)
SkipWS(d, i) ==
    IF i <= Len(d) /\ d[i] \in JSONSpace THEN SkipWS(d, i + 1) ELSE i

IsAt(d, i, lit) ==
    /\ i + Len(lit) - 1 <= Len(d)
    /\ SubSeq(d, i, i + Len(lit) - 1) = lit

\* the character an escape sequence \e stands for
SimpleEscapes == {"\"", "\\", "/", "n", "r", "t"}
Unescape(e) ==
    CASE e = "n" -> "\n"
      [] e = "r" -> "\r"
      [] e = "t" -> "\t"
      [] OTHER -> e

\* body of a string literal after the opening quote
RECURSIVE PStringBody(_, _, _)
PStringBody(d, i, acc) ==
    IF i > Len(d) THEN Fail
    ELSE IF d[i] = "\"" THEN Ok(i + 1, acc)
    ELSE IF d[i] = "\\" THEN
        IF i + 1 > Len(d) THEN Fail
        ELSE IF d[i + 1] \in SimpleEscapes
             THEN PStringBody(d, i + 2, Append(acc, Unescape(d[i + 1])))
        ELSE IF IsAt(d, i + 1, <<"u", "f", "f", "f", "d">>)
             THEN PStringBody(d, i + 6, Append(acc, "U+FFFD"))
        ELSE Fail
    ELSE IF d[i] \in {"\n", "\r", "\t"} THEN Fail   \* raw control character
    ELSE IF d[i] = "xFF" THEN PStringBody(d, i + 1, Append(acc, "U+FFFD"))
    ELSE PStringBody(d, i + 1, Append(acc, d[i]))

PString(d, i) ==
    IF i <= Len(d) /\ d[i] = "\"" THEN PStringBody(d, i + 1, << >>) ELSE Fail

RECURSIVE DigitsEnd(_, _)
DigitsEnd(d, i) ==
    IF i <= Len(d) /\ d[i] \in DigitSet THEN DigitsEnd(d, i + 1) ELSE i

\* an integer literal; fractions and exponents do not fit an int field
PInt(d, i) ==
    LET neg == i <= Len(d) /\ d[i] = "-"
        s == IF neg THEN i + 1 ELSE i
        e == DigitsEnd(d, s)
    IN  IF e = s THEN Fail
        ELSE IF d[s] = "0" /\ e > s + 1 THEN Fail
        ELSE IF e <= Len(d) /\ d[e] \in {".", "e", "E"} THEN Fail
        ELSE Ok(e, IF neg THEN 0 - DigitsVal(SubSeq(d, s, e - 1))
                          ELSE DigitsVal(SubSeq(d, s, e - 1)))

LitTrue == <<"t", "r", "u", "e">>
LitFalse == <<"f", "a", "l", "s", "e">>
LitNull == <<"n", "u", "l", "l">>

PBool(d, i) ==
    IF IsAt(d, i, LitTrue) THEN Ok(i + 4, TRUE)
    ELSE IF IsAt(d, i, LitFalse) THEN Ok(i + 5, FALSE)
    ELSE Fail

\* a scalar of any type, for keys that Task does not have
FirstOk(b, q, n) ==
    IF b.ok THEN Ok(b.pos, 0)
    ELSE IF q.ok THEN Ok(q.pos, 0)
    ELSE IF n.ok THEN Ok(n.pos, 0)
    ELSE Fail

PScalar(d, i) ==
    IF IsAt(d, i, LitNull) THEN Ok(i + 4, 0)
    ELSE FirstOk(PBool(d, i), PString(d, i), PInt(d, i))

\* field names match case-insensitively
FoldCase(c) ==
    CASE c = "I" -> "i" [] c = "D" -> "d" [] c = "E" -> "e" [] c = "S" -> "s"
      [] c = "C" -> "c" [] c = "R" -> "r" [] c = "P" -> "p" [] c = "T" -> "t"
      [] c = "O" -> "o" [] c = "N" -> "n" [] OTHER -> c
FoldKey(k) == [j \in 1..Len(k) |-> FoldCase(k[j])]

FieldId == <<"i", "d">>
FieldDescription == <<"d", "e", "s", "c", "r", "i", "p", "t", "i", "o", "n">>
FieldDone == <<"d", "o", "n", "e">>

\* position of the value after a key that ended before position p, or 0
ValuePos(d, c) == IF c <= Len(d) /\ d[c] = ":" THEN SkipWS(d, c + 1) ELSE 0

\* the parsed value r of the field named key stored into task t
StoreField(t, key, r) ==
    IF ~r.ok THEN Fail
    ELSE IF key = FieldId THEN Ok(r.pos, [t EXCEPT !.id = r.val])
    ELSE IF key = FieldDescription THEN Ok(r.pos, [t EXCEPT !.description = r.val])
    ELSE IF key = FieldDone THEN Ok(r.pos, [t EXCEPT !.done = r.val])
    ELSE Ok(r.pos, t)

\* the value at position v of the field named key; null leaves a field as is
PValue(d, v, t, key) ==
    IF v = 0 THEN Fail
    ELSE IF IsAt(d, v, LitNull) /\ key \in {FieldId, FieldDescription, FieldDone}
         THEN Ok(v + 4, t)
    ELSE StoreField(t, key,
             IF key = FieldId THEN PInt(d, v)
             ELSE IF key = FieldDescription THEN PString(d, v)
             ELSE IF key = FieldDone THEN PBool(d, v)
             ELSE PScalar(d, v))

AfterKey(d, t, k) ==
    IF ~k.ok THEN Fail
    ELSE PValue(d, ValuePos(d, SkipWS(d, k.pos)), t, FoldKey(k.val))

\* one "key": value member stored into task t
PMember(d, i, t) == AfterKey(d, t, PString(d, i))

\* members after the opening brace, up to and including the closing brace
RECURSIVE PMembers(_, _, _)
AfterMember(d, m, n) ==
    IF ~m.ok \/ n > Len(d) THEN Fail
    ELSE IF d[n] = "}" THEN Ok(n + 1, m.val)
    ELSE IF d[n] = "," THEN PMembers(d, SkipWS(d, n + 1), m.val)
    ELSE Fail

NextPos(d, r) == IF r.ok THEN SkipWS(d, r.pos) ELSE 0

MemberThen(d, m) == AfterMember(d, m, NextPos(d, m))

PMembers(d, i, t) == MemberThen(d, PMember(d, i, t))

\* an array element: an object, or null for the zero Task
ZeroTask == Task(0, << >>, FALSE)

PObjectBody(d, n) ==
    IF n <= Len(d) /\ d[n] = "}" THEN Ok(n + 1, ZeroTask)
    ELSE PMembers(d, n, ZeroTask)

PTask(d, i) ==
    IF IsAt(d, i, LitNull) THEN Ok(i + 4, ZeroTask)
    ELSE IF i <= Len(d) /\ d[i] = "{" THEN PObjectBody(d, SkipWS(d, i + 1))
    ELSE Fail

\* elements after the opening bracket, up to and including the closing one
RECURSIVE PElements(_, _, _)
AfterElement(d, e, n, acc) ==
    IF ~e.ok \/ n > Len(d) THEN Fail
    ELSE IF d[n] = "]" THEN Ok(n + 1, acc)
    ELSE IF d[n] = "," THEN PElements(d, SkipWS(d, n + 1), acc)
    ELSE Fail

Appended(acc, e) == IF e.ok THEN Append(acc, e.val) ELSE acc

ElementThen(d, e, acc) == AfterElement(d, e, NextPos(d, e), Appended(acc, e))

PElements(d, i, acc) == ElementThen(d, PTask(d, i), acc)

\* the decoded slice: [err, tasks, isNil]
DecodeError == [err |-> "parse", tasks |-> << >>, isNil |-> TRUE]
Decoded(ts, isNil) == [err |-> "ok", tasks |-> ts, isNil |-> isNil]

\* the document is read to its end: only white space may follow the value
Finished(d, r, isNil) ==
    IF r.ok /\ SkipWS(d, r.pos) > Len(d) THEN Decoded(r.val, isNil) ELSE DecodeError

PArrayBody(d, n) ==
    IF n <= Len(d) /\ d[n] = "]" THEN Ok(n + 1, << >>) ELSE PElements(d, n, << >>)

UnmarshalAt(d, i) ==
    IF IsAt(d, i, LitNull) THEN Finished(d, Ok(i + 4, << >>), TRUE)
    ELSE IF i <= Len(d) /\ d[i] = "[" THEN Finished(d, PArrayBody(d, SkipWS(d, i + 1)), FALSE)
    ELSE DecodeError

Unmarshal(d) == UnmarshalAt(d, SkipWS(d, 1))

(***************************************************************************)
(* CSV encoding: SaveCSV (json_storage.go lines 281-322) writes the header *)
(* and one record per task through encoding/csv's Writer (UseCRLF off).    *)
(***************************************************************************)
UnicodeSpace == {" ", "\t", "\n", "\r"}

\* csv.Writer.fieldNeedsQuotes
fieldNeedsQuotes(f) ==
    IF f = << >> THEN FALSE
    ELSE IF f = <<"\\", ".">> THEN TRUE
    ELSE IF \E k \in 1..Len(f) : f[k] \in {",", "\"", "\r", "\n"} THEN TRUE
    ELSE f[1] \in UnicodeSpace

CSVField(f) ==
    IF ~fieldNeedsQuotes(f) THEN f
    ELSE <<"\"">>
         \o Concat([k \in 1..Len(f) |->
                      IF f[k] = "\"" THEN <<"\"", "\"">> ELSE <<f[k]>>])
         \o <<"\"">>

\* csv.Writer.Write of a three-field record
CSVRecord(rec) ==
    CSVField(rec[1]) \o <<",">> \o CSVField(rec[2]) \o <<",">>
    \o CSVField(rec[3]) \o <<"\n">>

CSVHeader ==
    <<<<"I", "D">>,
      <<"D", "e", "s", "c", "r", "i", "p", "t", "i", "o", "n">>,
      <<"D", "o", "n", "e">>>>

EncodeCSV(ts) ==
    CSVRecord(CSVHeader)
    \o Concat([k \in 1..Len(ts) |->
                 CSVRecord(<<Itoa(ts[k].id), ts[k].description,
                             FormatBool(ts[k].done)>>)])

(***************************************************************************)
(* CSV decoding: encoding/csv's Reader as LoadCSV configures it (defaults: *)
(* comma, no comment, no lazy quotes, FieldsPerRecord 0), then the row     *)
(* loop of LoadCSV (json_storage.go lines 206-276).                        *)
(***************************************************************************)
\* Reader.readLine drops a trailing \r before EOF and turns the \r\n that
\* ends a line into \n
RECURSIVE DropCRLF(_, _)
DropCRLF(d, i) ==
    IF i > Len(d) THEN << >>
    ELSE IF d[i] = "\r" /\ i < Len(d) /\ d[i + 1] = "\n" THEN DropCRLF(d, i + 1)
    ELSE <<d[i]>> \o DropCRLF(d, i + 1)

NormalizeLines(d) ==
    DropCRLF(IF d # << >> /\ d[Len(d)] = "\r" THEN SubSeq(d, 1, Len(d) - 1) ELSE d, 1)

\* index of the newline that ends the line holding position p, or Len+1
RECURSIVE LineEnd(_, _)
LineEnd(d, p) ==
    IF p > Len(d) \/ d[p] = "\n" THEN p ELSE LineEnd(d, p + 1)

\* index of the comma or newline that ends an unquoted field, or Len+1
RECURSIVE FieldEnd(_, _)
FieldEnd(d, p) ==
    IF p > Len(d) \/ d[p] \in {",", "\n"} THEN p ELSE FieldEnd(d, p + 1)

\* a quoted field after its opening quote: how it ended, its text, and the
\* position after it
RECURSIVE QuotedBody(_, _, _)
QuotedBody(d, q, buf) ==
    IF q > Len(d) THEN [end |-> "err", val |-> buf, next |-> Len(d) + 1]
    ELSE IF d[q] = "\"" THEN
        IF q + 1 <= Len(d) /\ d[q + 1] = "\"" THEN QuotedBody(d, q + 2, Append(buf, "\""))
        ELSE IF q + 1 <= Len(d) /\ d[q + 1] = ","
             THEN [end |-> "comma", val |-> buf, next |-> q + 2]
        ELSE IF q + 1 > Len(d) \/ d[q + 1] = "\n"
             THEN [end |-> "eol", val |-> buf, next |-> q + 2]
        ELSE [end |-> "err", val |-> buf, next |-> LineEnd(d, q + 1) + 1]
    ELSE QuotedBody(d, q + 1, Append(buf, d[q]))

\* the parseField loop of Reader.readRecord from position p
RECURSIVE ParseFields(_, _, _)
ParseFields(d, p, acc) ==
    IF p <= Len(d) /\ d[p] = "\"" THEN
        LET r == QuotedBody(d, p + 1, << >>)
        IN  IF r.end = "comma" THEN ParseFields(d, r.next, Append(acc, r.val))
            ELSE IF r.end = "eol"
                 THEN [err |-> "nil", fields |-> Append(acc, r.val), next |-> r.next]
            ELSE [err |-> "parse", fields |-> acc, next |-> r.next]
    ELSE
        LET e == FieldEnd(d, p)
            f == SubSeq(d, p, e - 1)
        IN  IF \E k \in 1..Len(f) : f[k] = "\""
            THEN [err |-> "parse", fields |-> acc, next |-> LineEnd(d, p) + 1]
            ELSE IF e <= Len(d) /\ d[e] = ","
                 THEN ParseFields(d, e + 1, Append(acc, f))
            ELSE [err |-> "nil", fields |-> Append(acc, f), next |-> e + 1]

\* empty lines are skipped before a record
RECURSIVE SkipEmptyLines(_, _)
SkipEmptyLines(d, p) ==
    IF p <= Len(d) /\ d[p] = "\n" THEN SkipEmptyLines(d, p + 1) ELSE p

\* Reader.Read: [err, fields, next, fpr]; fpr is Reader.FieldsPerRecord
ReadRecord(d, pos, fpr) ==
    LET p == SkipEmptyLines(d, pos)
    IN  IF p > Len(d)
        THEN [err |-> "EOF", fields |-> << >>, next |-> p, fpr |-> fpr]
        ELSE LET r == ParseFields(d, p, << >>)
                 n == Len(r.fields)
             IN  [err |-> IF fpr > 0 /\ n # fpr /\ r.err = "nil"
                          THEN "fieldcount" ELSE r.err,
                  fields |-> r.fields,
                  next |-> r.next,
                  fpr |-> IF fpr = 0 THEN n ELSE fpr]

\* strings.TrimSpace
RECURSIVE TrimLeft(_)
TrimLeft(f) ==
    IF f # << >> /\ f[1] \in UnicodeSpace THEN TrimLeft(Tail(f)) ELSE f
RECURSIVE TrimRight(_)
TrimRight(f) ==
    IF f # << >> /\ f[Len(f)] \in UnicodeSpace
    THEN TrimRight(SubSeq(f, 1, Len(f) - 1)) ELSE f
TrimSpace(f) == TrimRight(TrimLeft(f))

\* strconv.Atoi: [ok, val]
Atoi(f) ==
    LET signed == f # << >> /\ f[1] \in {"+", "-"}
        ds == IF signed THEN Tail(f) ELSE f
    IN  IF ~AllDigits(ds) THEN [ok |-> FALSE, val |-> 0]
        ELSE [ok |-> TRUE,
              val |-> IF signed /\ f[1] = "-" THEN 0 - DigitsVal(ds) ELSE DigitsVal(ds)]

\* strconv.ParseBool: [ok, val]
ParseBool(f) ==
    IF f \in {<<"1">>, <<"t">>, <<"T">>, <<"T", "R", "U", "E">>,
              <<"t", "r", "u", "e">>, <<"T", "r", "u", "e">>}
    THEN [ok |-> TRUE, val |-> TRUE]
    ELSE IF f \in {<<"0">>, <<"f">>, <<"F">>, <<"F", "A", "L", "S", "E">>,
                   <<"f", "a", "l", "s", "e">>, <<"F", "a", "l", "s", "e">>}
    THEN [ok |-> TRUE, val |-> FALSE]
    ELSE [ok |-> FALSE, val |-> FALSE]

\* the for loop of LoadCSV: records read from pos on, lineNum rows counted
RECURSIVE LoadCSVLoop(_, _, _, _, _)
LoadCSVLoop(d, pos, fpr, lineNum, acc) ==
    LET r == ReadRecord(d, pos, fpr)
    IN  IF r.err = "EOF" THEN acc
        ELSE IF r.err # "nil" THEN LoadCSVLoop(d, r.next, r.fpr, lineNum, acc)
        ELSE IF lineNum + 1 = 1 THEN LoadCSVLoop(d, r.next, r.fpr, lineNum + 1, acc)
        ELSE IF Len(r.fields) < 3 THEN LoadCSVLoop(d, r.next, r.fpr, lineNum + 1, acc)
        ELSE LET id == Atoi(TrimSpace(r.fields[1]))
                 done == ParseBool(TrimSpace(r.fields[3]))
             IN  IF ~id.ok \/ ~done.ok
                 THEN LoadCSVLoop(d, r.next, r.fpr, lineNum + 1, acc)
                 ELSE LoadCSVLoop(d, r.next, r.fpr, lineNum + 1,
                          Append(acc, Task(id.val, TrimSpace(r.fields[2]), done.val)))

\* LoadCSV of an existing file: the result slice is nil when no row was kept
DecodeCSV(d) ==
    LET ts == LoadCSVLoop(NormalizeLines(d), 1, 0, 0, << >>)
    IN  Decoded(ts, ts = << >>)

(***************************************************************************)
(* Spec: the caller holds one collection and applies task operations.      *)
(***************************************************************************)
NoOp == [op |-> "none", arg |-> 0, err |-> "ok", id |-> 0,
         before |-> << >>, prior |-> {}, out |-> << >>, caller |-> << >>]

\* the parts of the state a specification does not use stay at rest
OpsIdle == tasks = << >> /\ assigned = {} /\ last = NoOp
NoInput == [kind |-> "none", rows |-> << >>]
CodecIdle ==
    /\ cTasks = << >> /\ cNil = FALSE
    /\ cFile = [exists |-> FALSE, format |-> "none", data |-> << >>]
    /\ cOut = [err |-> "none", tasks |-> << >>, isNil |-> TRUE]
    /\ cPhase = "start"
    /\ cIn = NoInput
\* the last command invocation: its command, exit status, whether main saved,
\* the store file before it, and the collection its handler returned
NoRun == [cmd |-> "none", exit |-> 0, saved |-> FALSE,
          before |-> [exists |-> FALSE, data |-> << >>],
          tasks |-> << >>, isNil |-> TRUE]
MainIdle == run = NoRun

\* the processes that use the store path
Procs == {1, 2}
NoFile == [exists |-> FALSE, data |-> << >>]
NoJob == [kind |-> "none", tasks |-> << >>]
NoRet == [err |-> "none", tasks |-> << >>, isNil |-> TRUE]

\* history of the calls in progress: seen[p], the contents the store path had
\* during p's LoadJSON; overlap[p], whether p's SaveJSON ran while another
\* SaveJSON was in progress; held, the store when the lock was acquired
NoHist == [seen |-> [p \in Procs |-> {}], overlap |-> [p \in Procs |-> FALSE],
           held |-> NoFile]

StoreIdle ==
    /\ store = NoFile /\ lockFile = FALSE
    /\ tmp = [p \in Procs |-> NoFile]
    /\ pc = [p \in Procs |-> "idle"]
    /\ job = [p \in Procs |-> NoJob]
    /\ elapsed = [p \in Procs |-> 0]
    /\ ret = [p \in Procs |-> NoRet]
    /\ hist = NoHist

Init ==
    /\ tasks \in SeqsUpTo(InitTasks, InitLen)
    /\ assigned = {}
    /\ last = NoOp
    /\ CodecIdle
    /\ StoreIdle
    /\ MainIdle

Add(desc) ==
    /\ Len(tasks) < MaxLen
    /\ generateID(tasks) <= MaxId
    /\ LET r == AddResult(tasks, desc)
       IN  /\ tasks' = r.tasks
           /\ assigned' = IF r.err = "ok" THEN assigned \cup {r.id} ELSE assigned
           /\ last' = [op |-> "add", arg |-> desc, err |-> r.err, id |-> r.id,
                       before |-> tasks, prior |-> assigned,
                       out |-> r.tasks, caller |-> tasks]
           /\ UNCHANGED <<codecVars, storeVars, mainVars>>

Complete(id) ==
    LET r == CompleteResult(tasks, id)
    IN  /\ tasks' = r.tasks
        /\ last' = [op |-> "complete", arg |-> id, err |-> r.err, id |-> 0,
                    before |-> tasks, prior |-> assigned,
                    out |-> r.tasks, caller |-> CompleteCaller(tasks, id)]
        /\ UNCHANGED <<assigned, codecVars, storeVars, mainVars>>

Delete(id) ==
    LET r == DeleteResult(tasks, id)
    IN  /\ tasks' = r.tasks
        /\ last' = [op |-> "delete", arg |-> id, err |-> r.err, id |-> 0,
                    before |-> tasks, prior |-> assigned,
                    out |-> r.tasks, caller |-> DeleteCaller(tasks, id)]
        /\ UNCHANGED <<assigned, codecVars, storeVars, mainVars>>

\* filter strings passed to List; the last is not recognized
ListFilters == {"all", "done", "pending", "Done"}

\* List returns a view and the caller keeps its collection
List(filter) ==
    /\ last' = [op |-> "list", arg |-> filter, err |-> "ok", id |-> 0,
                before |-> tasks, prior |-> assigned,
                out |-> ListResult(tasks, filter), caller |-> tasks]
    /\ UNCHANGED <<tasks, assigned, codecVars, storeVars, mainVars>>

Next ==
    \/ \E desc \in OpDescs : Add(desc)
    \/ \E id \in ArgIds : Complete(id)
    \/ \E id \in ArgIds : Delete(id)
    \/ \E filter \in ListFilters : List(filter)

Spec == Init /\ [][Next]_vars

\* Add alone, called with the descriptions at the limits
AddNext == \E desc \in LimitDescs : Add(desc)
AddSpec == Init /\ [][AddNext]_vars

\* the step just taken was a successful Add
AddedStep == last'.op = "add" /\ last'.err = "ok" /\ tasks' # tasks

(***************************************************************************)
(* C1: every successful Add on a collection of positive ids appends a task *)
(* whose id is max(ids present before) + 1, or 1 for the empty collection, *)
(* and that id differs from every id present before, so distinct ids stay   *)
(* distinct.                                                                *)
(***************************************************************************)
C1_AddIdIsMaxPlusOne ==
    [][(AddedStep /\ AllPositive(tasks)) =>
         /\ Len(tasks') = Len(tasks) + 1
         /\ tasks'[Len(tasks')].id =
               (IF tasks = << >> THEN 1 ELSE MaxOf(Ids(tasks)) + 1)
         /\ tasks'[Len(tasks')].id \notin Ids(tasks)
         /\ (Distinct(tasks) => Distinct(tasks'))]_vars

\* an Add ran on a collection with a gap left by a deletion
C1_Witness ==
    /\ last.op = "add" /\ last.err = "ok"
    /\ AllPositive(last.before)
    /\ Len(last.before) >= 1
    /\ Cardinality(Ids(last.before)) < MaxOf(Ids(last.before))
    /\ tasks[Len(tasks)].id = MaxOf(Ids(last.before)) + 1

(***************************************************************************)
(* C2: no Add, Complete or Delete call, successful or failing, turns a      *)
(* collection of pairwise distinct ids into one with a repeated id.         *)
(***************************************************************************)
C2_IdsStayDistinct == [][Distinct(tasks) => Distinct(tasks')]_vars

C2_Witness ==
    /\ Distinct(tasks) /\ Len(tasks) >= 2
    /\ last.op = "add" /\ last.err = "ok"
    /\ Distinct(last.before)
    /\ assigned # {} /\ Cardinality(last.prior) >= 1

(***************************************************************************)
(* C3 as stated: the id assigned by an Add differs from every id assigned  *)
(* by an earlier Add, including ids of tasks deleted since.                *)
(***************************************************************************)
C3_NeverReused == [][AddedStep => tasks'[Len(tasks')].id \notin assigned]_vars

(***************************************************************************)
(* C3 amended: the id assigned by an Add differs from the id of every task *)
(* in the collection, and it repeats the id of an earlier Add only when no  *)
(* task with that id or a greater one is left in the collection.            *)
(***************************************************************************)
C3_ReusedOnlyAboveMax ==
    [][AddedStep =>
         LET new == tasks'[Len(tasks')].id
         IN  /\ new \notin Ids(tasks)
             /\ \A a \in assigned :
                   (a = new) => \A i \in 1..Len(tasks) : tasks[i].id < a]_vars

\* an Add handed out again the id of a task deleted before
C3_Witness ==
    /\ last.op = "add" /\ last.err = "ok"
    /\ last.id \in last.prior
    /\ last.id \notin Ids(last.before)

(***************************************************************************)
(* CodecSpec: one collection is written to a file by SaveJSON or SaveCSV   *)
(* and the file is read back by LoadJSON or LoadCSV.                       *)
(***************************************************************************)
CodecMaxDesc == 2    \* longest description of the first task
CodecMaxTasks == 2   \* longest collection

\* characters of descriptions: plain, space, comma, quote, newline,
\* carriage return, backslash, a non-ASCII character, an invalid byte
CodecChars == {"a", " ", ",", "\"", "\n", "\r", "\\", "U+00E9", "xFF"}
CodecDescs == SeqsUpTo(CodecChars, CodecMaxDesc)
\* id and done flag of the first task
CodecIdDone == {<<-12, FALSE>>, <<7, TRUE>>}

CodecHeadTasks == {Task(x[1], d, x[2]) : x \in CodecIdDone, d \in CodecDescs}
\* the tasks after the first
CodecTailTasks ==
    {Task(0, <<"a">>, FALSE), Task(10, <<"\"", ",">>, TRUE),
     Task(-12, <<"U+00E9", "\n", "a">>, FALSE)}

CodecColls ==
    {<< >>} \cup
    UNION {{<<h>> \o t : h \in CodecHeadTasks, t \in [1..k -> CodecTailTasks]} :
              k \in 0..(CodecMaxTasks - 1)}

ValidUTF8(ts) ==
    \A i \in 1..Len(ts) : \A k \in 1..Len(ts[i].description) :
        ts[i].description[k] # "xFF"

CodecInit ==
    /\ OpsIdle
    /\ StoreIdle
    /\ cTasks \in CodecColls
    /\ cNil \in (IF cTasks = << >> THEN BOOLEAN ELSE {FALSE})
    /\ cFile = [exists |-> FALSE, format |-> "none", data |-> << >>]
    /\ cOut = [err |-> "none", tasks |-> << >>, isNil |-> TRUE]
    /\ cPhase = "start"
    /\ cIn = NoInput
    /\ MainIdle

\* SaveJSON without a failure: the file holds the MarshalIndent output
CodecSaveJSON ==
    /\ cPhase = "start"
    /\ cFile' = [exists |-> TRUE, format |-> "json",
                 data |-> MarshalIndent(cTasks, cNil)]
    /\ cPhase' = "saved"
    /\ UNCHANGED <<cTasks, cNil, cOut, cIn, opVars, storeVars, mainVars>>

\* SaveCSV without a failure
CodecSaveCSV ==
    /\ cPhase = "start"
    /\ cFile' = [exists |-> TRUE, format |-> "csv", data |-> EncodeCSV(cTasks)]
    /\ cPhase' = "saved"
    /\ UNCHANGED <<cTasks, cNil, cOut, cIn, opVars, storeVars, mainVars>>

\* mutant: the zero-length file is handed to json.Unmarshal
LoadJSONFile_noempty(f) ==
    IF ~f.exists THEN Decoded(<< >>, FALSE)
    ELSE Unmarshal(IF IsAt(f.data, 1, <<"xEF", "xBB", "xBF">>)
                   THEN SubSeq(f.data, 4, Len(f.data)) ELSE f.data)

\* LoadJSON of a file (json_storage.go lines 95-127)
LoadJSONFile(f) ==
    IF ~f.exists THEN Decoded(<< >>, FALSE)
    ELSE IF Len(f.data) = 0 THEN Decoded(<< >>, FALSE)
    ELSE Unmarshal(IF IsAt(f.data, 1, <<"xEF", "xBB", "xBF">>)
                   THEN SubSeq(f.data, 4, Len(f.data)) ELSE f.data)

\* LoadCSV of a file (json_storage.go lines 206-276)
LoadCSVFile(f) ==
    IF ~f.exists THEN [err |-> "open", tasks |-> << >>, isNil |-> TRUE]
    ELSE DecodeCSV(f.data)

CodecLoadJSON ==
    /\ cPhase = "saved" /\ cFile.format = "json"
    /\ cOut' = LoadJSONFile(cFile)
    /\ cPhase' = "loaded"
    /\ UNCHANGED <<cTasks, cNil, cFile, cIn, opVars, storeVars, mainVars>>

CodecLoadCSV ==
    /\ cPhase = "saved" /\ cFile.format = "csv"
    /\ cOut' = LoadCSVFile(cFile)
    /\ cPhase' = "loaded"
    /\ UNCHANGED <<cTasks, cNil, cFile, cIn, opVars, storeVars, mainVars>>

CodecNext == CodecSaveJSON \/ CodecSaveCSV \/ CodecLoadJSON \/ CodecLoadCSV

CodecSpec == CodecInit /\ [][CodecNext]_vars

\* the loaded collection has the length and, position by position, the id,
\* description and done flag of the saved one
SameTasks(out, ts) ==
    /\ out.err = "ok"
    /\ Len(out.tasks) = Len(ts)
    /\ \A i \in 1..Len(ts) :
          /\ out.tasks[i].id = ts[i].id
          /\ out.tasks[i].description = ts[i].description
          /\ out.tasks[i].done = ts[i].done

(***************************************************************************)
(* C9 as stated: LoadJSON of the file SaveJSON wrote for any collection,   *)
(* whatever its description strings, returns the same tasks.               *)
(***************************************************************************)
C9_JSONRoundTripAny ==
    (cPhase = "loaded" /\ cFile.format = "json") => SameTasks(cOut, cTasks)

(***************************************************************************)
(* C9 amended: LoadJSON of the file SaveJSON wrote for a collection whose  *)
(* descriptions are valid UTF-8 returns a collection of the same length    *)
(* with identical id, description and done at every position.              *)
(***************************************************************************)
C9_JSONRoundTripUTF8 ==
    (cPhase = "loaded" /\ cFile.format = "json" /\ ValidUTF8(cTasks))
        => SameTasks(cOut, cTasks)

\* a two-task collection with a quote, a newline and non-ASCII text came back
C9_Witness ==
    /\ cPhase = "loaded" /\ cFile.format = "json"
    /\ Len(cTasks) = 2 /\ ValidUTF8(cTasks)
    /\ cTasks[1].description = <<"\"", "\\">>
    /\ cTasks[2].description = <<"U+00E9", "\n", "a">>
    /\ cOut.tasks = cTasks

(***************************************************************************)
(* C10: LoadCSV of the file SaveCSV wrote for any collection returns a     *)
(* collection of the same length with identical id, description and done   *)
(* at every position, also for descriptions with commas, quotes, newlines  *)
(* or leading/trailing whitespace.                                         *)
(***************************************************************************)
C10_CSVRoundTrip ==
    (cPhase = "loaded" /\ cFile.format = "csv") => SameTasks(cOut, cTasks)

(***************************************************************************)
(* StoreSpec: processes call SaveJSON and LoadJSON on one store path       *)
(* (json_storage.go lines 95-184) with AcquireLock and Release of the lock *)
(* file (logger.go lines 554-601).  Every system call is one step.  The    *)
(* steps SaveJSON checks for an error may fail; removing a file the        *)
(* process itself created (the deferred cleanup and Release) succeeds.     *)
(* json.MarshalIndent cannot fail for a []Task.                            *)
(***************************************************************************)
\* time in ms.  lockRetry is the sleep of AcquireLock; the source's lockTimeout
\* is 50 sleeps long (5 s), which the model scales down to MaxWait sleeps
MaxWait == 3
lockRetry == 100
lockTimeout == MaxWait * lockRetry

\* collections handed to SaveJSON
SaveColls == {<< >>, <<Task(1, <<"a">>, FALSE)>>}
\* a file holding the bytes d
File(d) == [exists |-> TRUE, data |-> d]
\* what the store path holds at the start
InitStores == {NoFile, File(MarshalIndent(<<Task(3, <<"c">>, TRUE)>>, FALSE))}

\* the bytes SaveJSON of process p writes
Data(p) == MarshalIndent(job[p].tasks, FALSE)

\* p is between a successful AcquireLock and the matching Release
HoldsLock(p) == pc[p] \in {"create", "write", "sync", "close", "rename", "cleanup", "release"}
InSave(p) == job[p].kind = "save" /\ pc[p] \notin {"idle", "done"}

StoreInit ==
    /\ OpsIdle /\ CodecIdle /\ MainIdle
    /\ store \in InitStores
    /\ lockFile = FALSE
    /\ tmp = [p \in Procs |-> NoFile]
    /\ pc = [p \in Procs |-> "idle"]
    /\ job = [p \in Procs |-> NoJob]
    /\ elapsed = [p \in Procs |-> 0]
    /\ ret = [p \in Procs |-> NoRet]
    /\ hist = NoHist

\* the error err is pending in p's SaveJSON, which continues at position to
Goto(p, to, err) ==
    /\ pc' = [pc EXCEPT ![p] = to]
    /\ ret' = [ret EXCEPT ![p] = [err |-> err, tasks |-> << >>, isNil |-> TRUE]]

\* a process calls SaveJSON(path, c): start := time.Now()
CallSave(p, c) ==
    /\ pc[p] = "idle"
    /\ pc' = [pc EXCEPT ![p] = "acquire"]
    /\ job' = [job EXCEPT ![p] = [kind |-> "save", tasks |-> c]]
    /\ elapsed' = [elapsed EXCEPT ![p] = 0]
    /\ ret' = [ret EXCEPT ![p] = NoRet]
    /\ hist' = [hist EXCEPT
                  !.overlap = [q \in Procs |->
                                 IF q = p THEN \E o \in Procs \ {p} : InSave(o)
                                 ELSE IF InSave(q) THEN TRUE ELSE hist.overlap[q]]]
    /\ UNCHANGED <<store, lockFile, tmp>>

\* mutant: the marker is opened without O_EXCL
AcquireLock_noexcl(p) ==
    /\ pc[p] = "acquire"
    /\ lockFile' = TRUE
    /\ pc' = [pc EXCEPT ![p] = "create"]
    /\ elapsed' = [elapsed EXCEPT ![p] = 0]
    /\ hist' = [hist EXCEPT !.held = store]
    /\ UNCHANGED <<store, tmp, job, ret>>

\* mutant: a marker whose creator is dead is taken over
AcquireLock_steal(p) ==
    /\ pc[p] = "acquire"
    /\ ~lockFile \/ \E q \in Procs : pc[q] = "dead"
    /\ lockFile' = TRUE
    /\ pc' = [pc EXCEPT ![p] = "create"]
    /\ elapsed' = [elapsed EXCEPT ![p] = 0]
    /\ hist' = [hist EXCEPT !.held = store]
    /\ UNCHANGED <<store, tmp, job, ret>>

\* AcquireLock: os.OpenFile(lockPath, O_CREATE|O_EXCL|O_WRONLY) succeeds
AcquireLock(p) ==
    /\ pc[p] = "acquire"
    /\ ~lockFile
    /\ lockFile' = TRUE
    /\ pc' = [pc EXCEPT ![p] = "create"]
    /\ elapsed' = [elapsed EXCEPT ![p] = 0]
    /\ hist' = [hist EXCEPT !.held = store]
    /\ UNCHANGED <<store, tmp, job, ret>>

\* mutant: the wait has no bound
AcquireRetry_nobound(p) ==
    /\ pc[p] = "acquire"
    /\ \E d \in {lockRetry, lockTimeout + lockRetry - elapsed[p]} :
          elapsed' = [elapsed EXCEPT ![p] = elapsed[p] + d]
    /\ UNCHANGED <<pc, ret, store, lockFile, tmp, job, hist>>

\* AcquireLock: os.OpenFile failed, because the marker exists or for any other
\* reason; give up after lockTimeout, else sleep.  time.Sleep lasts lockRetry
\* or, when the process is delayed, longer
AcquireRetry(p) ==
    /\ pc[p] = "acquire"
    /\ IF elapsed[p] > lockTimeout
       THEN /\ Goto(p, "done", "lock timeout")
            /\ elapsed' = [elapsed EXCEPT ![p] = 0]
       ELSE /\ \E d \in {lockRetry, lockTimeout + lockRetry - elapsed[p]} :
                  elapsed' = [elapsed EXCEPT ![p] = elapsed[p] + d]
            /\ UNCHANGED <<pc, ret>>
    /\ UNCHANGED <<store, lockFile, tmp, job, hist>>

\* filepath.Abs and os.CreateTemp: a new empty file, or an error
CreateTemp(p) ==
    /\ pc[p] = "create"
    /\ \/ /\ tmp' = [tmp EXCEPT ![p] = File(<< >>)]
          /\ pc' = [pc EXCEPT ![p] = "write"]
          /\ UNCHANGED ret
       \/ /\ \E e \in {"abs", "create temp"} : Goto(p, "release", e)
          /\ UNCHANGED tmp
    /\ UNCHANGED <<store, lockFile, job, elapsed, hist>>

\* mutant: the bytes are written to the store path itself
Write_inplace(p) ==
    /\ pc[p] = "write"
    /\ \/ /\ store' = File(Data(p))
          /\ pc' = [pc EXCEPT ![p] = "sync"]
          /\ UNCHANGED ret
       \/ /\ \E n \in 0..(Len(Data(p)) - 1) :
                store' = File(SubSeq(Data(p), 1, n))
          /\ Goto(p, "cleanup", "write")
    /\ UNCHANGED <<tmp, lockFile, job, elapsed, hist>>

\* tmpFile.Write(data): all bytes, or an error after the first n bytes
Write(p) ==
    /\ pc[p] = "write"
    /\ \/ /\ tmp' = [tmp EXCEPT ![p].data = Data(p)]
          /\ pc' = [pc EXCEPT ![p] = "sync"]
          /\ UNCHANGED ret
       \/ /\ \E n \in 0..(Len(Data(p)) - 1) :
                tmp' = [tmp EXCEPT ![p].data = SubSeq(Data(p), 1, n)]
          /\ Goto(p, "cleanup", "write")
    /\ UNCHANGED <<store, lockFile, job, elapsed, hist>>

\* tmpFile.Sync()
Sync(p) ==
    /\ pc[p] = "sync"
    /\ \/ pc' = [pc EXCEPT ![p] = "close"] /\ UNCHANGED ret
       \/ Goto(p, "cleanup", "sync")
    /\ UNCHANGED <<store, lockFile, tmp, job, elapsed, hist>>

\* tmpFile.Close()
Close(p) ==
    /\ pc[p] = "close"
    /\ \/ pc' = [pc EXCEPT ![p] = "rename"] /\ UNCHANGED ret
       \/ Goto(p, "cleanup", "close")
    /\ UNCHANGED <<store, lockFile, tmp, job, elapsed, hist>>

\* os.Rename(tmpPath, path): the store becomes the temporary file, or an error
Rename(p) ==
    /\ pc[p] = "rename"
    /\ \/ /\ store' = tmp[p]
          /\ tmp' = [tmp EXCEPT ![p] = NoFile]
          /\ hist' = [hist EXCEPT
                        !.seen = [q \in Procs |->
                                    IF pc[q] \in {"stat", "read"}
                                    THEN hist.seen[q] \cup {tmp[p]} ELSE hist.seen[q]]]
          /\ Goto(p, "cleanup", "ok")
       \/ /\ Goto(p, "cleanup", "rename")
          /\ UNCHANGED <<store, tmp, hist>>
    /\ UNCHANGED <<lockFile, job, elapsed>>

\* mutant: the deferred function does not remove the temporary file
Cleanup_keep(p) ==
    /\ pc[p] = "cleanup"
    /\ pc' = [pc EXCEPT ![p] = "release"]
    /\ UNCHANGED <<store, lockFile, tmp, job, elapsed, ret, hist>>

\* the deferred function: close, and remove the temporary file if it exists
Cleanup(p) ==
    /\ pc[p] = "cleanup"
    /\ tmp' = [tmp EXCEPT ![p] = NoFile]
    /\ pc' = [pc EXCEPT ![p] = "release"]
    /\ UNCHANGED <<store, lockFile, job, elapsed, ret, hist>>

\* mutant: the lock is released only when SaveJSON succeeded
Release_onsuccess(p) ==
    /\ pc[p] = "release"
    /\ lockFile' = (IF ret[p].err = "ok" THEN FALSE ELSE lockFile)
    /\ pc' = [pc EXCEPT ![p] = "done"]
    /\ hist' = [hist EXCEPT !.held = NoFile]
    /\ UNCHANGED <<store, tmp, job, elapsed, ret>>

\* defer lock.Release(): the marker is removed and SaveJSON returns
Release(p) ==
    /\ pc[p] = "release"
    /\ lockFile' = FALSE
    /\ pc' = [pc EXCEPT ![p] = "done"]
    /\ hist' = [hist EXCEPT !.held = NoFile]
    /\ UNCHANGED <<store, tmp, job, elapsed, ret>>

\* a process calls LoadJSON(path)
CallLoad(p) ==
    /\ pc[p] = "idle"
    /\ pc' = [pc EXCEPT ![p] = "stat"]
    /\ job' = [job EXCEPT ![p] = [kind |-> "load", tasks |-> << >>]]
    /\ ret' = [ret EXCEPT ![p] = NoRet]
    /\ hist' = [hist EXCEPT !.seen[p] = {store}]
    /\ UNCHANGED <<store, lockFile, tmp, elapsed>>

\* os.Stat(path): a missing file is an empty task list
Stat(p) ==
    /\ pc[p] = "stat"
    /\ \/ /\ ~store.exists
          /\ pc' = [pc EXCEPT ![p] = "done"]
          /\ ret' = [ret EXCEPT ![p] = Decoded(<< >>, FALSE)]
       \/ /\ store.exists
          /\ pc' = [pc EXCEPT ![p] = "read"]
          /\ UNCHANGED ret
       \/ Goto(p, "done", "stat")
    /\ UNCHANGED <<store, lockFile, tmp, job, elapsed, hist>>

\* os.ReadFile(path) and the decoding of what was read
ReadFile(p) ==
    /\ pc[p] = "read"
    /\ \/ /\ pc' = [pc EXCEPT ![p] = "done"]
          /\ ret' = [ret EXCEPT ![p] = LoadJSONFile(store)]
       \/ Goto(p, "done", "read")
    /\ UNCHANGED <<store, lockFile, tmp, job, elapsed, hist>>

\* the call has returned; the process may make another call
Exit(p) ==
    /\ pc[p] = "done"
    /\ pc' = [pc EXCEPT ![p] = "idle"]
    /\ job' = [job EXCEPT ![p] = NoJob]
    /\ ret' = [ret EXCEPT ![p] = NoRet]
    /\ hist' = [hist EXCEPT !.seen[p] = {}, !.overlap[p] = FALSE]
    /\ UNCHANGED <<store, lockFile, tmp, elapsed>>

ProcStep(p) ==
    \/ \E c \in SaveColls : CallSave(p, c)
    \/ AcquireLock(p)
    \/ AcquireRetry(p)
    \/ CreateTemp(p)
    \/ Write(p)
    \/ Sync(p)
    \/ Close(p)
    \/ Rename(p)
    \/ Cleanup(p)
    \/ Release(p)
    \/ CallLoad(p)
    \/ Stat(p)
    \/ ReadFile(p)
    \/ Exit(p)

StoreNext == \E p \in Procs : ProcStep(p) /\ UNCHANGED <<opVars, codecVars, mainVars>>

StoreSpec == StoreInit /\ [][StoreNext]_vars

\* the scheduler lets every process run, and time.Sleep returns: a process in
\* the loop of AcquireLock eventually takes its next step
AcquirePass(p) ==
    (AcquireLock(p) \/ AcquireRetry(p)) /\ UNCHANGED <<opVars, codecVars, mainVars>>

FairStoreSpec == StoreSpec /\ \A p \in Procs : WF_vars(AcquirePass(p))

\* every content the store path is ever given as a whole
CompleteStores == InitStores \cup {File(MarshalIndent(c, FALSE)) : c \in SaveColls}

\* this step is the return of p's SaveJSON after it had acquired the lock
SaveReturns(p) == pc[p] = "release" /\ pc'[p] = "done"
\* this step is the return of p's SaveJSON with the lock-timeout error
SaveTimesOut(p) == pc[p] = "acquire" /\ pc'[p] = "done"
\* p's SaveJSON has returned with an error
SaveFailed(p) == pc[p] = "done" /\ job[p].kind = "save" /\ ret[p].err # "ok"
\* p's SaveJSON has returned without error
SaveSucceeded(p) == pc[p] = "done" /\ job[p].kind = "save" /\ ret[p].err = "ok"

BothSavesReturned ==
    \A p \in Procs : /\ pc[p] = "done" /\ job[p].kind = "save"
                     /\ hist.overlap[p]

\* C5 as stated: once two concurrent SaveJSON calls have both returned, the
\* store is the complete encoding of the collection of one of the two calls.
C5_StoreIsOneOfTwo ==
    BothSavesReturned => \E p \in Procs : store = File(Data(p))

\* C5: two concurrent SaveJSON calls never hold the lock together, and once
\* both have returned the store is the complete encoding of the collection of
\* a call that succeeded when one did, and a complete, earlier content (never
\* a mixture, never truncated) when both failed.
C5_StoreIsOneThatSucceeded ==
    /\ ~(\A p \in Procs : HoldsLock(p))
    /\ BothSavesReturned =>
         IF \E p \in Procs : SaveSucceeded(p)
         THEN \E p \in Procs : SaveSucceeded(p) /\ store = File(Data(p))
         ELSE store \in CompleteStores

\* two concurrent SaveJSON calls of different collections have both succeeded
C5_Witness ==
    /\ BothSavesReturned
    /\ \A p \in Procs : SaveSucceeded(p)
    /\ job[1].tasks # job[2].tasks
    /\ store = File(Data(2))

\* p takes a step of its LoadJSON
LoadStep(p) == job'[p].kind = "load" /\ pc'[p] # pc[p]

\* C6: LoadJSON takes no lock and never sees a half-written store.  Its steps
\* leave the lock marker, the temporary files and the store alone, whether
\* the marker exists or not; unless os.Stat or os.ReadFile itself fails, the
\* call returns without error the complete collection of a content the store
\* path held during the call: the one before or the one after a rename.
C6_LoadSeesWholeFiles ==
    [][\A p \in Procs :
         LoadStep(p) =>
           /\ lockFile' = lockFile /\ tmp' = tmp /\ store' = store
           /\ (pc'[p] = "done" /\ ret'[p].err \notin {"stat", "read"}) =>
                /\ ret'[p].err = "ok"
                /\ \E f \in hist.seen[p] : ret'[p] = LoadJSONFile(f)]_vars

\* a LoadJSON that began before the rename of a concurrent SaveJSON has
\* returned the new collection while the lock marker still exists
C6_Witness ==
    \E p \in Procs, q \in Procs :
        /\ pc[p] = "done" /\ job[p].kind = "load" /\ ret[p].err = "ok"
        /\ lockFile /\ pc[q] = "cleanup" /\ ret[q].err = "ok"
        /\ Cardinality(hist.seen[p]) = 2
        /\ job[q].tasks # << >> /\ ret[p].tasks = job[q].tasks

C8_AcquireBoundedNonReentrant ==
    /\ [][\A p \in Procs :
            /\ pc'[p] = "acquire" => elapsed'[p] <= lockTimeout + lockRetry
            /\ (pc[p] = "acquire" /\ pc'[p] = "acquire") =>
                 elapsed'[p] >= elapsed[p]
            /\ (pc[p] = "acquire" /\ pc'[p] = "create") =>
                 ~lockFile /\ lockFile'
            /\ SaveTimesOut(p) =>
                 /\ elapsed[p] > lockTimeout
                 /\ ret'[p].err = "lock timeout"
                 /\ ~tmp'[p].exists /\ tmp' = tmp
                 /\ store' = store /\ lockFile' = lockFile]_vars
    /\ \A p \in Procs : (pc[p] = "acquire") ~> (pc[p] # "acquire")

\* a SaveJSON has given up with the lock-timeout error while the other
\* process still holds the lock
C8_Witness ==
    \E p \in Procs, q \in Procs :
        /\ SaveFailed(p) /\ ret[p].err = "lock timeout"
        /\ lockFile /\ HoldsLock(q) /\ pc[q] = "write"

(***************************************************************************)
(* ImportSpec: LoadJSON and LoadCSV read a file that was written by hand,  *)
(* as handleLoad lets them (handlers.go lines 260-268).                    *)
(***************************************************************************)
ImportMaxRows == 2   \* most rows after the header of a hand-written CSV file

\* a row as text: its fields joined by commas and ended by a newline (the
\* fields below hold no comma, quote or newline, so each is one CSV field)
RECURSIVE JoinFields(_)
JoinFields(row) ==
    IF Len(row) = 1 THEN row[1]
    ELSE row[1] \o <<",">> \o JoinFields(Tail(row))
RowText(row) == JoinFields(row) \o <<"\n">>

\* rows of a hand-written file: well-formed, padded with spaces, non-numeric
\* id, non-boolean done, two fields, four fields, one field, empty id
ImportRows ==
    {<<<<"1">>, <<"a">>, <<"t", "r", "u", "e">>>>,
     <<<<" ", "2">>, <<"b">>, <<"F", " ">>>>,
     <<<<"x">>, <<"c">>, <<"t", "r", "u", "e">>>>,
     <<<<"3">>, <<"d">>, <<"y", "e", "s">>>>,
     <<<<"4">>, <<"e">>>>,
     <<<<"5">>, <<"f">>, <<"0">>, <<"z">>>>,
     <<<<"6">>>>,
     <<<< >>, <<"g">>, <<"1">>>>}

\* the file holding the header row and then the rows
CSVFileOf(rows) ==
    [exists |-> TRUE, format |-> "csv",
     data |-> RowText(CSVHeader)
              \o Concat([k \in 1..Len(rows) |-> RowText(rows[k])])]

\* a document SaveJSON writes, and hand-written texts that are not task lists
ImportDoc == MarshalIndent(<<Task(1, <<"a">>, TRUE)>>, FALSE)
ImportBadDocs ==
    {<<" ">>, <<"{", "}">>, <<"[", "1", "]">>, <<"xEF", "xBB", "xBF">>,
     <<"[", "{", "\"", "i", "d", "\"", ":", "\"", "x", "\"", "}", "]">>,
     SubSeq(ImportDoc, 1, Len(ImportDoc) - 1) \o <<",", "1", "]">>,
     ImportDoc \o <<"x">>}

JSONFileOf(d) == [exists |-> TRUE, format |-> "json", data |-> d]

\* first rows other than the header SaveCSV writes: a row that reads like a
\* task, a row with a quote inside an unquoted first field, which the reader
\* refuses, and a row of two fields
ImportHeads ==
    {<<"9", ",", "h", ",", "1">>,
     <<"I", "\"", "D", ",", "h", ",", "1">>,
     <<"I", "D", ",", "h">>}

\* the file holding the first row h and then the rows
HeadFileOf(h, rows) ==
    [exists |-> TRUE, format |-> "csv",
     data |-> h \o <<"\n">> \o Concat([k \in 1..Len(rows) |-> RowText(rows[k])])]

\* the files LoadCSV and LoadJSON are tried on, each with how it was made
ImportInputs ==
    {[file |-> CSVFileOf(rows), in |-> [kind |-> "csv", rows |-> rows]] :
        rows \in SeqsUpTo(ImportRows, ImportMaxRows)}
    \cup {[file |-> [exists |-> FALSE, format |-> "json", data |-> << >>],
           in |-> [kind |-> "missing", rows |-> << >>]]}
    \cup {[file |-> JSONFileOf(SubSeq(ImportDoc, 1, n)),
           in |-> [kind |-> IF n = 0 THEN "empty"
                            ELSE IF n = Len(ImportDoc) THEN "valid"
                            ELSE "invalid",
                   rows |-> << >>]] : n \in 0..Len(ImportDoc)}
    \cup {[file |-> JSONFileOf(d), in |-> [kind |-> "invalid", rows |-> << >>]] :
            d \in ImportBadDocs}
    \cup {[file |-> HeadFileOf(h, rows), in |-> [kind |-> "csvhead", rows |-> rows]] :
            h \in ImportHeads, rows \in SeqsUpTo(ImportRows, ImportMaxRows)}
    \cup {[file |-> [exists |-> TRUE, format |-> "csv", data |-> << >>],
           in |-> [kind |-> "csvnone", rows |-> << >>]]}

ImportInit ==
    /\ OpsIdle /\ StoreIdle /\ MainIdle
    /\ \E x \in ImportInputs : cFile = x.file /\ cIn = x.in
    /\ cTasks = << >> /\ cNil = FALSE
    /\ cOut = [err |-> "none", tasks |-> << >>, isNil |-> TRUE]
    /\ cPhase = "saved"

ImportNext == CodecLoadJSON \/ CodecLoadCSV

ImportSpec == ImportInit /\ [][ImportNext]_vars

\* reference: the row has at least 3 fields, an integer id and a boolean done
RowOk(row) ==
    /\ Len(row) >= 3
    /\ Atoi(TrimSpace(row[1])).ok
    /\ ParseBool(TrimSpace(row[3])).ok
RowTask(row) ==
    Task(Atoi(TrimSpace(row[1])).val, TrimSpace(row[2]),
         ParseBool(TrimSpace(row[3])).val)
\* reference: the tasks of the rows that qualify, in file order
RECURSIVE RowTasks(_)
RowTasks(rows) ==
    IF rows = << >> THEN << >>
    ELSE (IF RowOk(rows[1]) THEN <<RowTask(rows[1])>> ELSE << >>)
         \o RowTasks(Tail(rows))

(***************************************************************************)
(* C11: LoadCSV of an existing file returns no error, and its result holds *)
(* in file order one task for exactly the rows after the header that have  *)
(* at least 3 fields, an id field that parses as an integer after trimming *)
(* and a done field that parses as a boolean after trimming.               *)
(***************************************************************************)
C11_ResilientImport ==
    (cPhase = "loaded" /\ cIn.kind = "csv") =>
        /\ cOut.err = "ok"
        /\ cOut.tasks = RowTasks(cIn.rows)

(***************************************************************************)
(* C12: LoadJSON of a missing file and of an existing zero-length file     *)
(* returns an empty collection and no error; LoadJSON of an existing file  *)
(* whose content is not a valid JSON task list returns an error and no     *)
(* task at all.                                                            *)
(***************************************************************************)
C12_LoadByFileState ==
    (cPhase = "loaded" /\ cFile.format = "json") =>
        /\ cIn.kind \in {"missing", "empty"} =>
              cOut.err = "ok" /\ cOut.tasks = << >>
        /\ cIn.kind = "invalid" =>
              cOut.err = "parse" /\ cOut.tasks = << >>

\* a document whose first element is a well-formed task and whose second is
\* not a task was refused as a whole
C12_Witness ==
    /\ cPhase = "loaded" /\ cIn.kind = "invalid"
    /\ cFile.data = SubSeq(ImportDoc, 1, Len(ImportDoc) - 1) \o <<",", "1", "]">>
    /\ cOut.err = "parse" /\ cOut.tasks = << >>

(***************************************************************************)
(* C13: Add called with an empty description or one longer than 1000 bytes *)
(* returns an error and the collection it was given, with no task added    *)
(* and no id used up; called with a description of 1 to 1000 bytes it      *)
(* returns no error and appends a task with that description.              *)
(***************************************************************************)
C13_AddValidatesDescription ==
    last.op = "add" =>
        IF Len(last.arg) = 0 \/ Len(last.arg) > 1000
        THEN /\ last.err # "ok"
             /\ last.out = last.before /\ tasks = last.before
             /\ last.id = 0 /\ assigned = last.prior
        ELSE /\ last.err = "ok"
             /\ Len(tasks) = Len(last.before) + 1
             /\ SubSeq(tasks, 1, Len(last.before)) = last.before
             /\ tasks[Len(tasks)].description = last.arg

\* a description of 1001 bytes was refused after one of 1000 bytes was added
C13_Witness ==
    /\ last.op = "add" /\ Len(last.arg) = 1001 /\ last.err # "ok"
    /\ Len(tasks) >= 1
    /\ Len(tasks[Len(tasks)].description) = 1000

\* reference filters
IsDone(t) == t.done
IsPending(t) == ~t.done

(***************************************************************************)
(* C14: List with "done" returns exactly the tasks with done = true, with  *)
(* "pending" exactly those with done = false, each in the collection's     *)
(* order, so the two results split the collection with no overlap and no   *)
(* omission; with "all" or an unrecognized filter it returns the whole     *)
(* collection in unchanged order; it reports no error and leaves the       *)
(* collection as it is.                                                    *)
(***************************************************************************)
C14_ListMatchesFilter ==
    /\ last.op = "list" =>
         /\ last.err = "ok" /\ tasks = last.before
         /\ last.out = (IF last.arg = "done" THEN SelectSeq(last.before, IsDone)
                        ELSE IF last.arg = "pending"
                             THEN SelectSeq(last.before, IsPending)
                        ELSE last.before)
    /\ Len(ListResult(tasks, "done")) + Len(ListResult(tasks, "pending")) = Len(tasks)
    /\ \A i \in 1..Len(tasks) :
          \/ /\ tasks[i].done
             /\ \E k \in 1..Len(ListResult(tasks, "done")) :
                   ListResult(tasks, "done")[k] = tasks[i]
          \/ /\ ~tasks[i].done
             /\ \E k \in 1..Len(ListResult(tasks, "pending")) :
                   ListResult(tasks, "pending")[k] = tasks[i]

\* List "done" on a collection with done and pending tasks, and List with an
\* unrecognized filter, each returned what the claim says
C14_Witness ==
    /\ last.op = "list" /\ last.arg \in {"done", "Done"}
    /\ \E i, j \in 1..Len(last.before) :
          last.before[i].done /\ ~last.before[j].done
    /\ last.arg = "done" => Len(last.out) >= 1 /\ Len(last.out) < Len(last.before)
    /\ last.arg = "Done" => last.out = last.before

\* Complete applied a second time to what Complete returned gives no error
\* and the same collection
CompletesTwice(ts, id) ==
    /\ CompleteResult(ts, id).err = "ok"
    /\ CompleteResult(CompleteResult(ts, id).tasks, id).err = "ok"
    /\ CompleteResult(CompleteResult(ts, id).tasks, id).tasks
           = CompleteResult(ts, id).tasks

(***************************************************************************)
(* C15 as stated: for every collection and every id present in it,         *)
(* Complete applied twice succeeds and yields the same collection as       *)
(* Complete applied once.                                                  *)
(***************************************************************************)
C15_CompleteTwiceAnyId == \A id \in Ids(tasks) : CompletesTwice(tasks, id)

(***************************************************************************)
(* C15 amended: for every collection and every id >= 1 present in it,      *)
(* Complete applied twice succeeds and yields the same collection as       *)
(* Complete applied once; completing a task that is already done returns   *)
(* no error and changes nothing.                                           *)
(***************************************************************************)
C15_CompleteTwiceValidId ==
    /\ \A id \in Ids(tasks) : id >= 1 => CompletesTwice(tasks, id)
    /\ (last.op = "complete" /\ last.err = "ok") =>
          /\ CompleteResult(tasks, last.arg).err = "ok"
          /\ CompleteResult(tasks, last.arg).tasks = tasks
    /\ (/\ last.op = "complete" /\ last.arg >= 1
        /\ \E i \in 1..Len(last.before) :
              /\ last.before[i].id = last.arg /\ last.before[i].done
              /\ \A j \in 1..(i - 1) : last.before[j].id # last.arg) =>
          last.err = "ok" /\ tasks = last.before

\* Complete ran on a task that an earlier Complete had marked done
C15_Witness ==
    /\ last.op = "complete" /\ last.err = "ok"
    /\ tasks = last.before
    /\ \E i \in 1..Len(tasks) : tasks[i].id = last.arg /\ tasks[i].done

(***************************************************************************)
(* C16: Complete and Delete called with id < 1 return the validation       *)
(* error, also when a task of the collection carries that id; called with  *)
(* an id >= 1 that no task carries (the empty collection included) they    *)
(* return the not-found error; in both cases the collection returned has   *)
(* exactly the tasks of the collection given, in the same order.           *)
(***************************************************************************)
C16_FailuresChangeNothing ==
    last.op \in {"complete", "delete"} =>
        /\ last.arg < 1 =>
              last.err = "invalid id" /\ last.out = last.before /\ tasks = last.before
        /\ (last.arg >= 1 /\ last.arg \notin Ids(last.before)) =>
              last.err = "not found" /\ last.out = last.before /\ tasks = last.before
        /\ last.err # "ok" =>
              last.arg < 1 \/ last.arg \notin Ids(last.before)

\* Delete was refused for id 0 although a task with id 0 is in the collection
C16_Witness ==
    /\ last.op = "delete" /\ last.arg = 0 /\ last.err = "invalid id"
    /\ 0 \in Ids(tasks) /\ tasks = last.before

(***************************************************************************)
(* C17: a successful Delete removes exactly one task, the first in         *)
(* sequence order whose id matches, also when several tasks carry the id:  *)
(* the result is one shorter, the tasks before that position and the tasks *)
(* after it keep their values and their order.                             *)
(***************************************************************************)
C17_DeleteRemovesFirstMatch ==
    (last.op = "delete" /\ last.err = "ok") =>
        /\ last.out = tasks
        /\ Len(tasks) = Len(last.before) - 1
        /\ \E i \in 1..Len(last.before) :
              /\ last.before[i].id = last.arg
              /\ \A j \in 1..(i - 1) : last.before[j].id # last.arg
              /\ \A k \in 1..(i - 1) : tasks[k] = last.before[k]
              /\ \A k \in i..Len(tasks) : tasks[k] = last.before[k + 1]

\* of two tasks with the same id, one done and one pending, Delete removed
\* the first and kept the second
C17_Witness ==
    /\ last.op = "delete" /\ last.err = "ok"
    /\ \E i, j \in 1..Len(last.before) :
          /\ i < j
          /\ last.before[i].id = last.arg /\ last.before[j].id = last.arg
          /\ last.before[i].done /\ ~last.before[j].done
          /\ \A k \in 1..(i - 1) : last.before[k].id # last.arg
          /\ tasks[j - 1] = last.before[j]
          /\ \A k \in 1..Len(tasks) : tasks[k] # last.before[i]

(***************************************************************************)
(* C19: after Add, List, Complete or Delete returns, with or without       *)
(* error, the collection the caller passed in holds exactly the tasks, in  *)
(* the same order and with the same done flags, that it held before the    *)
(* call.                                                                   *)
(***************************************************************************)
C19_CallerKeepsCollection ==
    last.op \in {"add", "list", "complete", "delete"} => last.caller = last.before

(***************************************************************************)
(* MainSpec: command invocations (main.go lines 26-94), one after another, *)
(* on the store file tasks.json and one import file.                       *)
(***************************************************************************)
MainMaxTasks == 2
MainMaxId == 3

\* the store file at the start: missing, empty, written by SaveJSON,
\* hand-written null, and not a JSON document
MainStores ==
    {NoFile, File(<< >>), File(MarshalIndent(<<Task(1, DescA, FALSE)>>, FALSE)),
     File(LitNull), File(<<"{">>)}

\* the file named by load --file
MainImports ==
    {[exists |-> FALSE, format |-> "json", data |-> << >>],
     [exists |-> TRUE, format |-> "txt", data |-> <<"a">>],
     CSVFileOf(<< >>),
     CSVFileOf(<<<<<<"2">>, <<"b">>, <<"t", "r", "u", "e">>>>>>),
     CSVFileOf(<<<<<<"x">>, <<"c">>, <<"t", "r", "u", "e">>>>>>),
     [exists |-> TRUE, format |-> "csv", data |-> << >>],
     JSONFileOf(<< >>),
     JSONFileOf(<<"[", "]">>),
     JSONFileOf(LitNull),
     JSONFileOf(<<"{", "}">>),
     JSONFileOf(ImportDoc)}

MainInit ==
    /\ OpsIdle /\ MainIdle
    /\ store \in MainStores
    /\ lockFile = FALSE
    /\ tmp = [p \in Procs |-> NoFile]
    /\ pc = [p \in Procs |-> "idle"]
    /\ job = [p \in Procs |-> NoJob]
    /\ elapsed = [p \in Procs |-> 0]
    /\ ret = [p \in Procs |-> NoRet]
    /\ hist = NoHist
    /\ cFile \in MainImports
    /\ cTasks = << >> /\ cNil = FALSE
    /\ cOut = [err |-> "none", tasks |-> << >>, isNil |-> TRUE]
    /\ cPhase = "start"
    /\ cIn = NoInput

\* what a handler leaves: the exit status (0: it returned), the slice it
\* returned (isNil: a nil slice, also for the handlers that return nothing),
\* and the store file after it
Handled(exit, ts, isNil, st) ==
    [exit |-> exit, tasks |-> ts, isNil |-> isNil, store |-> st]
Exited(st) == Handled(1, << >>, TRUE, st)

\* handleAdd: exits on an empty description, else returns Add's slice
handleAdd(ld, desc, st) ==
    IF desc = << >> THEN Exited(st)
    ELSE Handled(0, AddResult(ld.tasks, desc).tasks, FALSE, st)

\* handleList: exits on a filter other than all, done, pending
handleList(ld, filter, st) ==
    IF filter \notin {"all", "done", "pending"} THEN Exited(st)
    ELSE Handled(0, << >>, TRUE, st)

\* handleComplete: exits on id 0 and on Complete's error
handleComplete(ld, id, st) ==
    IF id = 0 THEN Exited(st)
    ELSE IF CompleteResult(ld.tasks, id).err # "ok" THEN Exited(st)
    ELSE Handled(0, CompleteResult(ld.tasks, id).tasks, FALSE, st)

\* handleDelete: exits on id 0 and on Delete's error
handleDelete(ld, id, st) ==
    IF id = 0 THEN Exited(st)
    ELSE IF DeleteResult(ld.tasks, id).err # "ok" THEN Exited(st)
    ELSE Handled(0, DeleteResult(ld.tasks, id).tasks, FALSE, st)

\* handleExport: exits on a format other than json, csv; appends the
\* extension to the output name and writes the loaded tasks there.  Only the
\* output file tasks.json is the store file.
handleExport(ld, format, out, st) ==
    IF format \notin {"json", "csv"} THEN Exited(st)
    ELSE IF format = "json" /\ out \in {"tasks", "tasks.json"}
    THEN Handled(0, << >>, TRUE, File(MarshalIndent(ld.tasks, ld.isNil)))
    ELSE Handled(0, << >>, TRUE, st)

\* handleLoad: exits on a missing file, an extension other than .json and
\* .csv, and an import error; else returns the imported slice
handleLoad(f, st) ==
    IF ~f.exists THEN Exited(st)
    ELSE IF f.format = "json"
    THEN (IF LoadJSONFile(f).err # "ok" THEN Exited(st)
          ELSE Handled(0, LoadJSONFile(f).tasks, LoadJSONFile(f).isNil, st))
    ELSE IF f.format = "csv"
    THEN (IF LoadCSVFile(f).err # "ok" THEN Exited(st)
          ELSE Handled(0, LoadCSVFile(f).tasks, LoadCSVFile(f).isNil, st))
    ELSE Exited(st)

\* the end of main: SaveJSON when the handler returned a slice that is not
\* nil; saveOk, whether that SaveJSON succeeds (a failed one leaves the store
\* file as it was and main exits with status 1)
MainEnd(cmd, h, saveOk) ==
    /\ store' = IF h.exit = 0 /\ ~h.isNil /\ saveOk
                THEN File(MarshalIndent(h.tasks, FALSE)) ELSE h.store
    /\ run' = [cmd |-> cmd,
               exit |-> IF h.exit = 0 /\ ~h.isNil /\ ~saveOk THEN 1 ELSE h.exit,
               saved |-> h.exit = 0 /\ ~h.isNil /\ saveOk,
               before |-> store, tasks |-> h.tasks, isNil |-> h.isNil]
    /\ UNCHANGED <<lockFile, tmp, pc, job, elapsed, ret, hist, opVars, codecVars>>

\* main fails before the switch when tasks.json cannot be loaded
StoreLoads == LoadJSONFile(store).err = "ok"

MainAdd(desc) ==
    /\ StoreLoads =>
          /\ Len(LoadJSONFile(store).tasks) < MainMaxTasks
          /\ generateID(LoadJSONFile(store).tasks) <= MainMaxId
    /\ \E saveOk \in BOOLEAN :
          MainEnd("add",
                  IF StoreLoads THEN handleAdd(LoadJSONFile(store), desc, store)
                  ELSE Exited(store), saveOk)

MainList(filter) ==
    MainEnd("list",
            IF StoreLoads THEN handleList(LoadJSONFile(store), filter, store)
            ELSE Exited(store), TRUE)

MainComplete(id) ==
    \E saveOk \in BOOLEAN :
        MainEnd("complete",
                IF StoreLoads THEN handleComplete(LoadJSONFile(store), id, store)
                ELSE Exited(store), saveOk)

MainDelete(id) ==
    \E saveOk \in BOOLEAN :
        MainEnd("delete",
                IF StoreLoads THEN handleDelete(LoadJSONFile(store), id, store)
                ELSE Exited(store), saveOk)

MainExport(format, out) ==
    MainEnd("export",
            IF StoreLoads THEN handleExport(LoadJSONFile(store), format, out, store)
            ELSE Exited(store), TRUE)

MainLoad ==
    \E saveOk \in BOOLEAN :
        MainEnd("load",
                IF StoreLoads THEN handleLoad(cFile, store) ELSE Exited(store),
                saveOk)

\* help, -h, --help: printUsage and nothing else
MainHelp ==
    MainEnd("help",
            IF StoreLoads THEN Handled(0, << >>, TRUE, store) ELSE Exited(store),
            TRUE)

\* any other command word: exit status 1
MainUnknown == MainEnd("unknown", Exited(store), TRUE)

MainNext ==
    \/ \E desc \in {<< >>, DescA} : MainAdd(desc)
    \/ \E filter \in ListFilters : MainList(filter)
    \/ \E id \in 0..MainMaxId : MainComplete(id)
    \/ \E id \in 0..MainMaxId : MainDelete(id)
    \/ \E format \in {"json", "csv", "xml"} :
          \E out \in {"tasks", "tasks_export"} : MainExport(format, out)
    \/ MainLoad
    \/ MainHelp
    \/ MainUnknown

MainSpec == MainInit /\ [][MainNext]_vars

(***************************************************************************)
(* C18: after a command invocation the store file holds the command's      *)
(* resulting collection when the command is add, complete, delete or load  *)
(* and it succeeded (a load of a file that yields zero tasks included);    *)
(* after any other invocation the store file's content is what it was.     *)
(***************************************************************************)
C18_SavedAfterModifyingOnly ==
    run.cmd # "none" =>
        IF run.cmd \in {"add", "complete", "delete", "load"} /\ run.exit = 0
        THEN store = File(MarshalIndent(run.tasks, FALSE))
        ELSE store = run.before

(***************************************************************************)
(* C20: lock mutual exclusion.  In every reachable state at most one       *)
(* process is between a successful AcquireLock and the matching Release,   *)
(* and the marker file exists exactly when some process holds the lock;    *)
(* the marker is removed only by the Release step of the process that      *)
(* holds the lock, which is the process that created it.                   *)
(***************************************************************************)
Holders == {p \in Procs : HoldsLock(p)}

C21_SaveProtocolOrder ==
    [][\A p \in Procs :
         /\ (~tmp[p].exists /\ tmp'[p].exists) =>
               pc[p] = "create" /\ Holders = {p} /\ lockFile
         /\ (pc'[p] = "sync" /\ pc[p] # "sync") =>
               pc[p] = "write" /\ tmp'[p] = File(Data(p))
         /\ (pc'[p] = "close" /\ pc[p] # "close") =>
               pc[p] = "sync" /\ tmp[p] = File(Data(p))
         /\ (pc'[p] = "rename" /\ pc[p] # "rename") =>
               pc[p] = "close" /\ tmp[p] = File(Data(p))
         /\ (pc[p] = "rename" /\ ret'[p].err = "ok") =>
               /\ Holders = {p} /\ lockFile /\ lockFile'
               /\ tmp[p] = File(Data(p)) /\ store' = tmp[p]
         /\ store' # store =>
               \E q \in Procs : pc[q] = "rename" /\ ret'[q].err = "ok"
         /\ SaveReturns(p) => ~tmp[p].exists /\ ~tmp'[p].exists]_vars

\* a SaveJSON has renamed its temporary file onto a store that held something
\* else and has not yet released the lock
C21_Witness ==
    \E p \in Procs :
        /\ pc[p] = "release" /\ ret[p].err = "ok"
        /\ store = File(Data(p)) /\ hist.held # store
        /\ lockFile /\ ~tmp[p].exists

(***************************************************************************)
(* CrashSpec: StoreSpec with processes killed inside SaveJSON while they   *)
(* hold the lock.  A killed process takes no further step: its deferred    *)
(* calls do not run, so the marker and its temporary file stay.            *)
(***************************************************************************)
Crash(p) ==
    /\ HoldsLock(p)
    /\ pc' = [pc EXCEPT ![p] = "dead"]
    /\ UNCHANGED <<store, lockFile, tmp, job, elapsed, ret, hist>>

CrashNext ==
    \E p \in Procs :
        (ProcStep(p) \/ Crash(p)) /\ UNCHANGED <<opVars, codecVars, mainVars>>

CrashSpec == StoreInit /\ [][CrashNext]_vars

\* a call of AcquireLock goes through its loop again and again
FairCrashSpec == CrashSpec /\ \A p \in Procs : WF_vars(AcquirePass(p))

\* the processes killed inside SaveJSON
Dead == {p \in Procs : pc[p] = "dead"}

(***************************************************************************)
(* C22: a stale lock is never recovered.  When a process is killed inside  *)
(* SaveJSON while it holds the lock, the store file is complete and holds  *)
(* what it held when the lock was acquired or the collection being saved;  *)
(* from then on the marker stays, the store file does not change, a        *)
(* SaveJSON leaves AcquireLock only with the lock-timeout error, and every *)
(* SaveJSON that is waiting for the lock does end with that error.         *)
(***************************************************************************)
C22_StaleLockNeverRecovered ==
    /\ [][/\ \A p \in Procs :
               (pc[p] # "dead" /\ pc'[p] = "dead") =>
                  /\ store' = store /\ lockFile'
                  /\ store \in CompleteStores
                  /\ store = hist.held \/ store = File(Data(p))
          /\ Dead # {} =>
               /\ Dead \subseteq Dead'
               /\ lockFile /\ lockFile'
               /\ store' = store
               /\ \A q \in Procs :
                    (pc[q] = "acquire" /\ pc'[q] # "acquire") =>
                       pc'[q] = "done" /\ ret'[q].err = "lock timeout"]_vars
    /\ \A q \in Procs :
          (Dead # {} /\ pc[q] = "acquire") ~>
             (pc[q] = "done" /\ ret[q].err = "lock timeout")

\* a process was killed after its rename, and the SaveJSON of the other
\* process has given up with the lock-timeout error
C22_Witness ==
    \E p \in Procs, q \in Procs :
        /\ pc[p] = "dead" /\ store = File(Data(p)) /\ hist.held # store
        /\ pc[q] = "done" /\ job[q].kind = "save"
        /\ ret[q].err = "lock timeout" /\ lockFile

(***************************************************************************)
(* InvokeSpec: two add invocations (main.go lines 54-93) on one store      *)
(* file.  Each process loads tasks.json with LoadJSON, calls Add on what   *)
(* it loaded and saves the result with SaveJSON, step by step as in        *)
(* StoreSpec; cTasks keeps the collection the store file held at the       *)
(* start.                                                                  *)
(***************************************************************************)
InvokeInit ==
    /\ OpsIdle /\ MainIdle
    /\ cTasks \in {<< >>, <<Task(3, <<"c">>, TRUE)>>}
    /\ store = (IF cTasks = << >> THEN NoFile
                ELSE File(MarshalIndent(cTasks, FALSE)))
    /\ cNil = FALSE
    /\ cFile = [exists |-> FALSE, format |-> "none", data |-> << >>]
    /\ cOut = [err |-> "none", tasks |-> << >>, isNil |-> TRUE]
    /\ cPhase = "start"
    /\ cIn = NoInput
    /\ lockFile = FALSE
    /\ tmp = [p \in Procs |-> NoFile]
    /\ pc = [p \in Procs |-> "idle"]
    /\ job = [p \in Procs |-> NoJob]
    /\ elapsed = [p \in Procs |-> 0]
    /\ ret = [p \in Procs |-> NoRet]
    /\ hist = NoHist

\* the description given to the add command of process p
DescOf(p) == IF p = 1 THEN DescA ELSE DescB

\* handleAdd and the start of the save at the end of main: the loaded tasks
\* with the new task appended are handed to SaveJSON
InvokeAdd(p) ==
    /\ pc[p] = "done" /\ job[p].kind = "load" /\ ret[p].err = "ok"
    /\ pc' = [pc EXCEPT ![p] = "acquire"]
    /\ job' = [job EXCEPT ![p] = [kind |-> "save",
                                  tasks |-> AddResult(ret[p].tasks, DescOf(p)).tasks]]
    /\ elapsed' = [elapsed EXCEPT ![p] = 0]
    /\ ret' = [ret EXCEPT ![p] = NoRet]
    /\ hist' = [hist EXCEPT
                  !.overlap = [q \in Procs |->
                                 IF q = p THEN \E o \in Procs \ {p} : InSave(o)
                                 ELSE IF InSave(q) THEN TRUE ELSE hist.overlap[q]]]
    /\ UNCHANGED <<store, lockFile, tmp>>

InvokeStep(p) ==
    \/ CallLoad(p)
    \/ Stat(p)
    \/ ReadFile(p)
    \/ InvokeAdd(p)
    \/ AcquireLock(p)
    \/ AcquireRetry(p)
    \/ CreateTemp(p)
    \/ Write(p)
    \/ Sync(p)
    \/ Close(p)
    \/ Rename(p)
    \/ Cleanup(p)
    \/ Release(p)

InvokeNext ==
    \E p \in Procs : InvokeStep(p) /\ UNCHANGED <<opVars, codecVars, mainVars>>

InvokeSpec == InvokeInit /\ [][InvokeNext]_vars

\* both invocations have ended with a successful save
BothAdded == \A p \in Procs : SaveSucceeded(p)

\* the collection a LoadJSON of the store file returns
StoreTasks == LoadJSONFile(store).tasks

\* the collection holds a task with this description
HasDesc(ts, d) == \E i \in 1..Len(ts) : ts[i].description = d

(***************************************************************************)
(* C23: no lost update.  When two concurrent add invocations have both     *)
(* saved successfully, the store holds the tasks it held before and both   *)
(* added tasks, with distinct ids.                                         *)
(***************************************************************************)
C23_NoLostUpdate ==
    BothAdded =>
        /\ Len(StoreTasks) = Len(cTasks) + 2
        /\ SubSeq(StoreTasks, 1, Len(cTasks)) = cTasks
        /\ \A p \in Procs : HasDesc(StoreTasks, DescOf(p))
        /\ Distinct(StoreTasks)

(***************************************************************************)
(* C23, amended: when two concurrent add invocations have both saved       *)
(* successfully, the store holds the collection saved by one of them: the  *)
(* tasks the store held before, then the tasks that invocation loaded in   *)
(* addition, then its own added task, all with distinct ids.  It holds     *)
(* both added tasks when that invocation's Load saw the other's saved      *)
(* file and nothing else, and only its own added task when its Load saw    *)
(* only the file from before.                                              *)
(***************************************************************************)
C23_LastSaveWins ==
    BothAdded =>
        \E p \in Procs : \E q \in Procs \ {p} :
            /\ StoreTasks = job[p].tasks
            /\ SubSeq(StoreTasks, 1, Len(cTasks)) = cTasks
            /\ StoreTasks[Len(StoreTasks)].description = DescOf(p)
            /\ StoreTasks[Len(StoreTasks)].done = FALSE
            /\ Distinct(StoreTasks)
            /\ Len(StoreTasks) \in {Len(cTasks) + 1, Len(cTasks) + 2}
            /\ hist.seen[p] = {File(Data(q))} =>
                  /\ Len(StoreTasks) = Len(cTasks) + 2
                  /\ HasDesc(StoreTasks, DescOf(q))
            /\ File(Data(q)) \notin hist.seen[p] =>
                  /\ Len(StoreTasks) = Len(cTasks) + 1
                  /\ ~HasDesc(StoreTasks, DescOf(q))

\* both invocations have saved without ever being inside SaveJSON at the
\* same time, and the task added by one of them is not in the store
C23_Witness ==
    /\ BothAdded
    /\ \A p \in Procs : ~hist.overlap[p]
    /\ cTasks # << >>
    /\ Len(StoreTasks) = Len(cTasks) + 1
    /\ \E q \in Procs : ~HasDesc(StoreTasks, DescOf(q))

(***************************************************************************)
(* C24: for every collection, with zero or negative ids too, the id a      *)
(* successful Add assigns is 1 + the largest id in the collection, and 1   *)
(* for the empty collection.                                               *)
(***************************************************************************)
C24_IdIsOnePlusMax ==
    (last.op = "add" /\ last.err = "ok") =>
        /\ last.id = (IF last.before = << >> THEN 1
                      ELSE 1 + MaxOf(Ids(last.before)))
        /\ tasks[Len(tasks)].id = last.id

(***************************************************************************)
(* C25: a successful Add(C, d) changes nothing but the tail.  The result   *)
(* is one task longer than C, its first |C| tasks are C's tasks in C's     *)
(* order, and its last task has the description d as given and done =      *)
(* false.                                                                  *)
(***************************************************************************)
C25_AddAppendsOnly ==
    (last.op = "add" /\ last.err = "ok") =>
        /\ Len(last.out) = Len(last.before) + 1
        /\ \A i \in 1..Len(last.before) : last.out[i] = last.before[i]
        /\ last.out[Len(last.out)].description = last.arg
        /\ last.out[Len(last.out)].done = FALSE
        /\ tasks = last.out

\* a description with a space inside was added after two tasks, the first of
\* them done
C25_Witness ==
    /\ last.op = "add" /\ last.err = "ok" /\ last.arg = DescB
    /\ Len(last.before) = 2
    /\ last.before[1].done /\ ~last.before[2].done
    /\ tasks[3].description = DescB

\* the position of the first task of ts with this id
FirstIndex(ts, id) ==
    CHOOSE k \in 1..Len(ts) :
        ts[k].id = id /\ \A j \in 1..(k - 1) : ts[j].id # id

(***************************************************************************)
(* C26: a successful Complete(C, id) changes only the done flag of the     *)
(* first task, in sequence order, whose id is id, also when several tasks  *)
(* have that id.  The result has C's length and order, that task has done  *)
(* = true with its id and description as before, and every other task is  *)
(* as in C.                                                                *)
(***************************************************************************)
C26_CompleteSetsOneFlag ==
    (last.op = "complete" /\ last.err = "ok") =>
        /\ last.arg \in Ids(last.before)
        /\ Len(last.out) = Len(last.before)
        /\ \A i \in 1..Len(last.before) :
              /\ last.out[i].id = last.before[i].id
              /\ last.out[i].description = last.before[i].description
              /\ last.out[i].done =
                    (IF i = FirstIndex(last.before, last.arg) THEN TRUE
                     ELSE last.before[i].done)
        /\ tasks = last.out

\* Complete ran on a collection in which two pending tasks have the id; the
\* first is now done and the second still pending
C26_Witness ==
    /\ last.op = "complete" /\ last.err = "ok"
    /\ \E i, j \in 1..Len(last.before) :
          /\ i < j
          /\ last.before[i].id = last.arg /\ last.before[j].id = last.arg
          /\ ~last.before[i].done /\ ~last.before[j].done
          /\ tasks[i].done /\ ~tasks[j].done

(***************************************************************************)
(* C27: LoadCSV skips exactly the first row of the file as the header,     *)
(* whatever that row holds, and takes no later row for the header: for a   *)
(* file whose rows after the first all have three fields, the result is    *)
(* the tasks of the qualifying rows after the first, in file order, with   *)
(* no error; a file with only a first row, or with nothing, gives no task  *)
(* and no error.                                                           *)
(***************************************************************************)
C27_FirstRowIsHeader ==
    (/\ cPhase = "loaded"
     /\ cIn.kind \in {"csv", "csvhead", "csvnone"}
     /\ \A k \in 1..Len(cIn.rows) : Len(cIn.rows[k]) = 3) =>
        /\ cOut.err = "ok"
        /\ cOut.tasks = RowTasks(cIn.rows)

(***************************************************************************)
(* C28: whichever way an empty collection arose, the save after the        *)
(* command writes it as an empty JSON list.  After a successful add,       *)
(* complete, delete or load whose resulting collection has no task, the    *)
(* store file holds [] and not null or nothing, and a LoadJSON of it       *)
(* returns an empty collection without error.                              *)
(***************************************************************************)
C28_EmptySavedAsList ==
    (/\ run.cmd \in {"add", "complete", "delete", "load"}
     /\ run.exit = 0
     /\ run.tasks = << >>) =>
        /\ store = File(<<"[", "]">>)
        /\ LoadJSONFile(store) = Decoded(<< >>, FALSE)

\* every task of a is in b at its position with the same id and description,
\* and done in b if done in a
KeptTasks(a, b) ==
    /\ Len(b) >= Len(a)
    /\ \A i \in 1..Len(a) :
          /\ b[i].id = a[i].id
          /\ b[i].description = a[i].description
          /\ a[i].done => b[i].done

\* b is a without its k-th task
WithoutTask(a, k) == SubSeq(a, 1, k - 1) \o SubSeq(a, k + 1, Len(a))

(***************************************************************************)
(* C29: the task lifecycle is monotonic.  Every Add, List, Complete and    *)
(* Delete call, successful or not, keeps each task's id and description    *)
(* and never turns done from true to false; a task leaves the collection   *)
(* only in a successful Delete called with its id, which removes that one  *)
(* task and keeps the others as they are.  Holding for every call, this    *)
(* holds over every sequence of calls.                                     *)
(***************************************************************************)
C29_LifecycleMonotonic ==
    last.op # "none" =>
        \/ KeptTasks(last.before, tasks)
        \/ /\ last.op = "delete" /\ last.err = "ok"
           /\ \E k \in 1..Len(last.before) :
                 /\ last.before[k].id = last.arg
                 /\ tasks = WithoutTask(last.before, k)

\* a successful Delete took the pending middle task out of three and left the
\* done first task and the last task as they were
C29_Witness ==
    /\ last.op = "delete" /\ last.err = "ok"
    /\ Len(last.before) = 3
    /\ last.before[1].done /\ ~last.before[2].done
    /\ last.before[2].id = last.arg
    /\ last.before[1].id # last.arg /\ last.before[3].id # last.arg
    /\ tasks = <<last.before[1], last.before[3]>>

====
